---- MODULE Spec2Model ----
(***************************************************************************)
(* A model of the gulag bancho server (sutekina/osu-gulag): the session    *)
(* registry and login (domains/cho.py, objects/collections.py,             *)
(* objects/player.py), the multiplayer match handlers (domains/cho.py,     *)
(* constants/commands.py) and the score submission (domains/osu.py).       *)
(*                                                                         *)
(* Specifications:                                                         *)
(*   Spec       the multiplayer match handlers over registered sessions    *)
(*   SpecMods   the handlers of mods and freemods, over every mod set      *)
(*   SpecLogin  concurrent logins against the registry, with time          *)
(*   SpecQueue  concurrent gateway requests and the outbound queues        *)
(*   SpecScore  concurrent score submissions against the scores table      *)
(*   SpecFriends the friend and block lists of one player                  *)
(*   SpecCache  the login credential check and its bcrypt cache            *)
(*   SpecTeams  the team of a slot under every team type                   *)
(*   SpecRoom   joining, leaving and locking, with the packets sent        *)
(*   SpecPlay   starting, playing and the map of a match                   *)
(*   SpecPool   the mappool of a match: load, ban, unban and pick          *)
(*   SpecTimer  the start timer of a match, its alerts and its cancel      *)
(*   SpecAnnounce score submissions that rank #1 and their announcement    *)
(*   SpecForce  joins, slot changes, locks and forced joins, recorded      *)
(*   SpecChan   channels and spectators, and logout within a request       *)
(*   SpecDrain  logins and logouts between the requests of a session       *)
(*   SpecCodec  values written to a buffer and read back (packets.py)      *)
(*   SpecReader bodies of packets read by the packet reader (packets.py)   *)
(***************************************************************************)
EXTENDS Integers, Sequences, FiniteSets, TLC

(***************************************************************************)
(* Bounds of the model.                                                    *)
(***************************************************************************)
\* sessions besides the bot that the match handlers are run for
NUsers == 2
\* slots of a match (16 in the program)
NSlots == 3
\* entries of the match registry (glob.config.max_multi_matches)
NMatches == 1

\* Python's None where a session, a slot index or a match id is expected.
None == -1

\* No Match object.
NoMatch == [host |-> None]

\* The bot is Player(id=1).
BotId == 1
Users == 2 .. (NUsers + 1)
Sessions == {BotId} \cup Users
SlotIds == 0 .. (NSlots - 1)
MatchIds == 0 .. (NMatches - 1)

\* Members of glob.players.staff and holders of Privileges.Tournament.
Staff == {3}
Tournament == {}

\* Match passwords on the wire.
Passwds == {"", "pw"}

(***************************************************************************)
(* constants.mods / objects.match (not among the sources: modelled from    *)
(* the data model of the specification).                                   *)
(***************************************************************************)
\* A Mods bitset is modelled as the set of its bits.
ModBits == {"HD", "DT"}
SPEED_CHANGING_MODS == {"DT"}
NOMOD == {}
AllMods == SUBSET ModBits

\* SlotStatus, and its has_player mask.
SlotStatuses ==
  {"open", "locked", "not_ready", "ready", "no_map",
   "playing", "complete", "failed", "quit"}
has_player ==
  {"not_ready", "ready", "no_map", "playing", "complete", "failed", "quit"}

\* MatchTeamTypes and MatchTeams.
TeamTypes == {"head_to_head", "tag_coop", "team_vs", "tag_team_vs"}
Teams == {"neutral", "red", "blue"}

\* The beatmap ids that packets and commands carry; -1 is no map.
NMaps == 2
MapIds == 1 .. NMaps
NoMap == -1

\* The mappools of glob.pools, each a mapping from (mods, slot number) to a
\* map, and the picks that a command can name.
NPools == 1
NPicks == 2
PoolNames == 1 .. NPools
NoPool == -1
Picks == ({NOMOD, {"HD"}} \X {1}) \cup {<<NOMOD, k>> : k \in 2 .. NPicks}
NoPick == <<NOMOD, 0>>
Pool_maps(pool) == (<<NOMOD, 1>> :> 1) @@ (<<{"HD"}, 1>> :> NMaps)

\* Slot() as constructed, and Slot.reset().
EmptySlot == [status |-> "open", player |-> None, mods |-> NOMOD, team |-> "neutral"]
Slot_reset(s) == EmptySlot

\* Slot.empty()
Slot_empty(s) == s.player = None

\* Slot.copy_from(other)
Slot_copy_from(s, other) ==
  [status |-> other.status, player |-> other.player, mods |-> other.mods,
   team |-> other.team]

VARIABLES
  players,     \* glob.players: the sessions in the registry
  hastoken,    \* the sessions whose token is not ''
  inflight,    \* the sessions with a gateway request being handled
  pmatch,      \* Player.match of every session: a match object or None
  matches,     \* the Match objects, by id
  registry,    \* glob.matches: the ids whose entry holds the match object
  chat,        \* Match.chat: the members of every match's channel
  recording,   \* whether last and sent are kept
  last,        \* the handler that ran last, and the session it ran for
  sent         \* the match packets it enqueued, each with the session it went to

matchVars == <<players, hastoken, inflight, pmatch, matches, registry, chat,
               recording, last, sent>>

VARIABLES
  now,         \* time.time()
  online,      \* glob.players, as Player objects, in the login specification
  last_recv,   \* Player.last_recv_time of every Player object
  objects,     \* the number of Player objects constructed so far
  lock,        \* glob.players._lock: the login that holds it, or None
  logins       \* the login requests: where each is in bancho_handler and login()

loginVars == <<now, online, last_recv, objects, lock, logins>>

\* the variables that the match handlers leave alone
VARIABLES
  queue,       \* Player._queue of every session: the bytes not yet sent
  requests,    \* the gateway requests being handled
  qplayers     \* glob.players, for the requests: the sessions logged in

queueVars == <<queue, requests, qplayers>>

VARIABLES
  scores,      \* the rows of the scores table
  plays,       \* stats.plays of the player, and plays of the map
  subs         \* the score submissions being handled

scoreVars == <<scores, plays, subs>>

VARIABLES
  friends,     \* Player.friends of every session: user ids
  blocks       \* Player.blocks of every session: user ids

friendVars == <<friends, blocks>>

VARIABLES
  bcrypt_cache, \* glob.cache['bcrypt']: the md5 cached for a bcrypt hash
  last_check    \* the last check of credentials: hash, md5 and outcome

cacheVars == <<bcrypt_cache, last_check>>

VARIABLES
  codec,       \* a value, the bytes written for it and what is read back
  reader       \* a BanchoPacketReader: its view and the packets it returned

codecVars == <<codec, reader>>

VARIABLES
  cplayers,    \* glob.players, for the channels: the sessions in the registry
  cmembers,    \* Channel.players of every channel
  pchannels,   \* Player.channels of every session: the list of its channels
  spectating,  \* Player.spectating of every session: its host, or None
  spectators,  \* Player.spectators of every session
  creq,        \* the gateway request being handled: its session and packets
  clast        \* what the last packet did: the message sent and its recipients,
               \* or the number of channels that a logout left

chanVars == <<cplayers, cmembers, pchannels, spectating, spectators, creq, clast>>

notMatchVars == <<loginVars, queueVars, scoreVars, friendVars, cacheVars, codecVars, chanVars>>
notLoginVars == <<matchVars, queueVars, scoreVars, friendVars, cacheVars, codecVars, chanVars>>
notCacheVars == <<matchVars, queueVars, scoreVars, friendVars, codecVars, chanVars>>
notQueueVars == <<matchVars, loginVars, scoreVars, friendVars, cacheVars, codecVars, chanVars>>
notScoreVars == <<matchVars, loginVars, queueVars, friendVars, cacheVars, codecVars, chanVars>>
notFriendVars == <<matchVars, loginVars, queueVars, scoreVars, cacheVars, codecVars, chanVars>>
notCodecVars == <<matchVars, loginVars, queueVars, scoreVars, friendVars, cacheVars, chanVars>>
notChanVars == <<matchVars, loginVars, queueVars, scoreVars, friendVars, cacheVars, codecVars>>

\* Match.get_free(): the first open slot, or None.
Match_get_free(m) ==
  IF \E i \in SlotIds : m.slots[i].status = "open"
  THEN CHOOSE i \in SlotIds :
         /\ m.slots[i].status = "open"
         /\ \A j \in SlotIds : m.slots[j].status = "open" => i <= j
  ELSE None

\* Match.get_slot_id(p) / Match.get_slot(p): the slot p is in, or None.
Match_get_slot_id(m, p) ==
  IF \E i \in SlotIds : m.slots[i].player = p
  THEN CHOOSE i \in SlotIds :
         /\ m.slots[i].player = p
         /\ \A j \in SlotIds : m.slots[j].player = p => i <= j
  ELSE None

\* Match.get_host_slot(): the occupied slot of the host, or None.
Match_get_host_slot(m) ==
  IF \E i \in SlotIds : m.slots[i].status \in has_player /\ m.slots[i].player = m.host
  THEN CHOOSE i \in SlotIds :
         /\ m.slots[i].status \in has_player /\ m.slots[i].player = m.host
         /\ \A j \in SlotIds :
              (m.slots[j].status \in has_player /\ m.slots[j].player = m.host) => i <= j
  ELSE None

\* Match.unready_players(expected)
Match_unready_players(m, expected) ==
  [m EXCEPT !.slots = [i \in SlotIds |->
     IF m.slots[i].status = expected
     THEN [m.slots[i] EXCEPT !.status = "not_ready"]
     ELSE m.slots[i]]]

\* A start event takes effect always.
Match_can_start_always(m) == TRUE

\* A start event takes effect only when the match is not in progress.
Match_can_start(m) == ~m.in_progress

\* Match.start(): unless the match is in progress, its ready and not-ready
\* slots start playing and it is in progress.
Match_start(m) ==
  IF ~Match_can_start(m) THEN m
  ELSE [m EXCEPT !.in_progress = TRUE,
                 !.slots = [i \in SlotIds |->
                   IF m.slots[i].status \in {"ready", "not_ready"}
                   THEN [m.slots[i] EXCEPT !.status = "playing"]
                   ELSE m.slots[i]]]

\* write_match(m) raises AttributeError when it dereferences a missing host
\* or the missing player of a slot whose status has a player.
write_match_raises(m) ==
  \/ m.host = None
  \/ \E i \in SlotIds : m.slots[i].status \in has_player /\ m.slots[i].player = None


\* Match.enqueue_state(): the state of the match goes to the members of its
\* channel; nothing is sent when write_match raises.
Match_enqueue_state(ch, id, m) ==
  IF write_match_raises(m) THEN {} ELSE {<<q, "updateMatch">> : q \in ch[id]}

\* Match.enqueue(data, immune)
Match_enqueue(ch, id, data, immune) == {<<q, data>> : q \in ch[id] \ immune}

\* The handler op ran for p and enqueued the packets out; arg is the match
\* id and the password of a join packet, or the pick of a mappool command.
NoArg == [id |-> None, passwd |-> "", pick |-> NoPick]
NoStep == [op |-> "none", p |-> None, arg |-> NoArg]
RecordArg(op, p, arg, out) ==
  /\ last' = IF recording THEN [op |-> op, p |-> p, arg |-> arg] ELSE last
  /\ sent' = IF recording THEN out ELSE sent
  /\ UNCHANGED recording
Record(op, p, out) == RecordArg(op, p, NoArg, out)

\* glob.players.get(id=...)
Players_get(id) == IF id \in players THEN id ELSE None

\* Matches.get_free(): the lowest free index of the registry, or None.
Matches_get_free ==
  IF \E id \in MatchIds : id \notin registry
  THEN CHOOSE id \in MatchIds :
         id \notin registry /\ \A j \in MatchIds : j \notin registry => id <= j
  ELSE None

\* The match object with this id is referenced by no session, and the session
\* object of u by nothing: the model reuses an identifier only for an object
\* that nothing can reach any more.
MatchUnreferenced(id) == \A p \in Sessions : pmatch[p] # id
UnreferencedIn(u, pm, ms, ch) ==
  /\ u \notin inflight
  /\ pm[u] = None
  /\ \A id \in MatchIds :
       ms[id] # NoMatch =>
         /\ ms[id].host # u
         /\ u \notin ch[id]
         /\ \A i \in SlotIds : ms[id].slots[i].player # u
Unreferenced(u) == UnreferencedIn(u, pmatch, matches, chat)

\* A match object that left the registry and that no session references is dropped.
Collect(ms, reg, pm) ==
  [id \in MatchIds |->
     IF id \notin reg /\ (\A p \in Sessions : pm[p] # id) THEN NoMatch ELSE ms[id]]

CollectChat(ch, reg, pm) ==
  [id \in MatchIds |->
     IF id \notin reg /\ (\A p \in Sessions : pm[p] # id) THEN {} ELSE ch[id]]

(***************************************************************************)
(* Player.join_match(m, passwd), on the match objects ms and channels ch.  *)
(* The result: whether it raised, and the state it leaves.                 *)
(***************************************************************************)
\* Any password accepted.
passwd_accepted_any(p, m, passwd) == TRUE

\* `if self not in glob.players.staff and passwd != m.passwd`: refused
passwd_accepted(p, m, passwd) == p \in (Staff \cap players) \/ passwd = m.passwd

join_match(p, id, passwd, ms, ch) ==
  LET m == ms[id]
      unchanged == [joined |-> FALSE, raised |-> FALSE,
                    pmatch |-> pmatch, matches |-> ms, chat |-> ch, sent |-> {}]
      failed == [unchanged EXCEPT !.sent = {<<p, "matchJoinFail">>}]
      free == Match_get_free(m)
      slotID == IF p # m.host THEN free ELSE 0
      m2 == [m EXCEPT !.slots[slotID].status = "not_ready",
                      !.slots[slotID].player = p,
                      !.slots[slotID].team =
                         IF m.team_type \in {"team_vs", "tag_team_vs"} THEN "red" ELSE @]
      ch2 == [ch EXCEPT ![id] = @ \cup {p}]
  IN
  IF pmatch[p] # None THEN failed
  ELSE IF p # m.host /\ ~passwd_accepted(p, m, passwd) THEN failed
  ELSE IF p # m.host /\ free = None THEN failed
  ELSE IF p \in ch[id] THEN unchanged       \* join_channel(m.chat) fails
  ELSE [joined  |-> TRUE,
        raised  |-> write_match_raises(m2), \* matchJoinSuccess(m), enqueue_state()
        pmatch  |-> [pmatch EXCEPT ![p] = id],
        matches |-> [ms EXCEPT ![id] = m2],
        chat    |-> ch2,
        sent    |-> IF write_match_raises(m2) THEN {}
                    ELSE {<<p, "matchJoinSuccess">>} \cup Match_enqueue_state(ch2, id, m2)]

(***************************************************************************)
(* Player.leave_match()                                                    *)
(***************************************************************************)
\* the first slot with a player, in slot order
FirstOccupied(m) ==
  CHOOSE i \in SlotIds :
    /\ m.slots[i].status \in has_player
    /\ \A j \in SlotIds : m.slots[j].status \in has_player => i <= j

leave_match(p) ==
  LET id == pmatch[p]
      m == matches[id]
      sid == Match_get_slot_id(m, p)
      m1 == [m EXCEPT !.slots[sid] = Slot_reset(m.slots[sid])]
      ch1 == [chat EXCEPT ![id] = @ \ {p}]
      empty == \A i \in SlotIds : Slot_empty(m1.slots[i])
      rehost == p = m1.host /\ \E i \in SlotIds : m1.slots[i].status \in has_player
      m2 == IF rehost
            THEN [m1 EXCEPT !.host = m1.slots[FirstOccupied(m1)].player]
            ELSE m1
      transfer == IF rehost THEN {<<m2.host, "matchTransferHost">>} ELSE {}
  IN
  IF id = None
    THEN [raised |-> FALSE, pmatch |-> pmatch, matches |-> matches,
          registry |-> registry, chat |-> chat, sent |-> {}]
  ELSE IF sid = None                        \* get_slot(self) is None: .reset() raises
    THEN [raised |-> TRUE, pmatch |-> pmatch, matches |-> matches,
          registry |-> registry, chat |-> chat, sent |-> {}]
  ELSE IF empty
    THEN [raised |-> FALSE, pmatch |-> [pmatch EXCEPT ![p] = None],
          matches |-> [matches EXCEPT ![id] = m1],
          registry |-> registry \ {id}, chat |-> ch1, sent |-> {}]
  ELSE IF write_match_raises(m2)            \* enqueue_state() raises: self.match stays
    THEN [raised |-> TRUE, pmatch |-> pmatch,
          matches |-> [matches EXCEPT ![id] = m2],
          registry |-> registry, chat |-> ch1, sent |-> transfer]
  ELSE [raised |-> FALSE, pmatch |-> [pmatch EXCEPT ![p] = None],
        matches |-> [matches EXCEPT ![id] = m2],
        registry |-> registry, chat |-> ch1,
        sent |-> transfer \cup Match_enqueue_state(ch1, id, m2)]

\* A handler of p's request that raised ends the request.
Aborted(p, raised) == IF raised THEN inflight \ {p} ELSE inflight

(***************************************************************************)
(* The gateway: bancho_handler looks the session up by its token, runs the *)
(* handlers of the packets of the body one after the other, and returns.  *)
(***************************************************************************)
BeginRequest(p) ==
  /\ p \in players /\ p \in hastoken /\ p \notin inflight
  /\ inflight' = inflight \cup {p}
  /\ UNCHANGED <<players, hastoken, pmatch, matches, registry, chat>>
  /\ Record("BeginRequest", p, {})
  /\ UNCHANGED notMatchVars

EndRequest(p) ==
  /\ p \in inflight
  /\ inflight' = inflight \ {p}
  /\ UNCHANGED <<players, hastoken, pmatch, matches, registry, chat>>
  /\ Record("EndRequest", p, {})
  /\ UNCHANGED notMatchVars

(***************************************************************************)
(* Player.logout(), and the Logout packet.                                 *)
(***************************************************************************)
Logout(p) ==
  /\ p \in inflight
  /\ LET r == leave_match(p) IN
     /\ hastoken' = hastoken \ {p}
     /\ pmatch' = r.pmatch
     /\ registry' = r.registry
     /\ matches' = Collect(r.matches, r.registry, r.pmatch)
     /\ chat' = CollectChat(r.chat, r.registry, r.pmatch)
     /\ players' = IF r.raised THEN players ELSE players \ {p}
     /\ inflight' = Aborted(p, r.raised)
     /\ Record("Logout", p, r.sent)
  /\ UNCHANGED notMatchVars


(***************************************************************************)
(* The match packets of domains/cho.py.                                    *)
(***************************************************************************)
\* The match read from a create packet: read_match() takes the host from the
\* host id on the wire; the slots are those of the client's new room.  No
\* start timer is pending: timer is the session that queued the start held
\* in starting['start'], alerts the alert timers held in starting['alerts'],
\* and loop the callbacks of this match that glob.loop will still call, _start
\* as 0 and an alert as the seconds it announces.
NewMatch(host_id, mods, freemods, passwd, team_type, map_id) ==
  [host |-> Players_get(host_id), mods |-> mods, freemods |-> freemods,
   in_progress |-> FALSE, passwd |-> passwd,
   team_type |-> team_type, map_id |-> map_id, timer |-> None,
   alerts |-> {}, loop |-> {}, pool |-> NoPool, bans |-> {},
   slots |-> [i \in SlotIds |-> EmptySlot]]

MatchCreate(p, host_id, mods, freemods, passwd, team_type, map_id) ==
  /\ p \in inflight
  /\ Matches_get_free # None
  /\ LET id == Matches_get_free
         r == join_match(p, id, passwd,
                [matches EXCEPT
                   ![id] = NewMatch(host_id, mods, freemods, passwd, team_type, map_id)],
                [chat EXCEPT ![id] = {}])
     IN
     /\ MatchUnreferenced(id)
     /\ registry' = registry \cup {id}
     /\ pmatch' = r.pmatch
     /\ matches' = r.matches
     /\ chat' = r.chat
     /\ inflight' = Aborted(p, r.raised)
     /\ Record("MatchCreate", p, r.sent)
  /\ UNCHANGED <<players, hastoken>>
  /\ UNCHANGED notMatchVars

\* MatchJoin.handle: a match that does not exist is answered matchJoinFail.
MatchJoin(p, match_id, match_passwd) ==
  /\ p \in inflight
  /\ IF match_id \notin registry
     THEN /\ UNCHANGED <<pmatch, matches, chat, inflight>>
          /\ RecordArg("MatchJoin", p, [NoArg EXCEPT !.id = match_id, !.passwd = match_passwd],
                       {<<p, "matchJoinFail">>})
     ELSE LET r == join_match(p, match_id, match_passwd, matches, chat) IN
          /\ pmatch' = r.pmatch
          /\ matches' = r.matches
          /\ chat' = r.chat
          /\ inflight' = Aborted(p, r.raised)
          /\ RecordArg("MatchJoin", p, [NoArg EXCEPT !.id = match_id, !.passwd = match_passwd], r.sent)
  /\ UNCHANGED <<players, hastoken, registry>>
  /\ UNCHANGED notMatchVars

MatchPart(p) ==
  /\ p \in inflight
  /\ pmatch[p] # None
  /\ LET r == leave_match(p) IN
     /\ pmatch' = r.pmatch
     /\ registry' = r.registry
     /\ matches' = Collect(r.matches, r.registry, r.pmatch)
     /\ chat' = CollectChat(r.chat, r.registry, r.pmatch)
     /\ inflight' = Aborted(p, r.raised)
     /\ Record("MatchPart", p, r.sent)
  /\ UNCHANGED <<players, hastoken>>
  /\ UNCHANGED notMatchVars

\* The handler op changed p's match into m2, enqueued the packets pkts and
\* called enqueue_state().
Changed(p, m2, op, pkts) ==
  /\ matches' = [matches EXCEPT ![pmatch[p]] = m2]
  /\ inflight' = Aborted(p, write_match_raises(m2))
  /\ Record(op, p, pkts \cup Match_enqueue_state(chat, pmatch[p], m2))
  /\ UNCHANGED <<players, hastoken, pmatch, registry, chat>>
  /\ UNCHANGED notMatchVars

\* The handler op changed p's match into m2 and returned.
Altered(p, m2, op) ==
  /\ matches' = [matches EXCEPT ![pmatch[p]] = m2]
  /\ Record(op, p, {})
  /\ UNCHANGED <<players, hastoken, inflight, pmatch, registry, chat>>
  /\ UNCHANGED notMatchVars

\* The packet dropped and the session of its sender closed.
Dropped_closed(p, op) ==
  /\ Record(op, p, {})
  /\ players' = players \ {p}
  /\ UNCHANGED <<hastoken, inflight, pmatch, matches, registry, chat>>
  /\ UNCHANGED notMatchVars

\* The handler op logged the packet of p and returned.
Dropped(p, op) ==
  /\ Record(op, p, {})
  /\ UNCHANGED <<players, hastoken, inflight, pmatch, matches, registry, chat>>
  /\ UNCHANGED notMatchVars

\* The handler op raised before it changed anything.
Raised(p, op) ==
  /\ inflight' = inflight \ {p}
  /\ Record(op, p, {})
  /\ UNCHANGED <<players, hastoken, pmatch, matches, registry, chat>>
  /\ UNCHANGED notMatchVars

\* The handler op raised after it had changed p's match into m2 and enqueued pkts.
RaisedAfter(p, m2, op, pkts) ==
  /\ matches' = [matches EXCEPT ![pmatch[p]] = m2]
  /\ inflight' = inflight \ {p}
  /\ Record(op, p, pkts)
  /\ UNCHANGED <<players, hastoken, pmatch, registry, chat>>
  /\ UNCHANGED notMatchVars

\* The slot that the session moved out of, kept as it was.
Vacated_kept(s) == s

\* `s.reset()` of MatchChangeSlot.handle: the slot that the session moved
\* out of.
Vacated(s) == Slot_reset(s)

MatchChangeSlot(p, slot_id) ==
  /\ p \in inflight
  /\ pmatch[p] # None
  /\ LET m == matches[pmatch[p]]
         sid == Match_get_slot_id(m, p)
     IN
     /\ slot_id \in SlotIds
     /\ m.slots[slot_id].status = "open"
     /\ IF sid = None
        THEN Raised(p, "MatchChangeSlot")
        ELSE Changed(p, [m EXCEPT
               !.slots[slot_id] = Slot_copy_from(m.slots[slot_id], m.slots[sid]),
               !.slots[sid] = Vacated(m.slots[sid])], "MatchChangeSlot", {})

\* m.get_slot(p).status = status; m.enqueue_state(lobby=False)
SetOwnStatus(p, status, op) ==
  /\ p \in inflight
  /\ pmatch[p] # None
  /\ LET m == matches[pmatch[p]]
         sid == Match_get_slot_id(m, p)
     IN
     IF sid = None
     THEN Raised(p, op)
     ELSE Changed(p, [m EXCEPT !.slots[sid].status = status], op, {})

MatchReady(p) == SetOwnStatus(p, "ready", "MatchReady")

MatchNoBeatmap(p) == SetOwnStatus(p, "no_map", "MatchNoBeatmap")

MatchNotReady(p) == SetOwnStatus(p, "not_ready", "MatchNotReady")

MatchHasBeatmap(p) == SetOwnStatus(p, "not_ready", "MatchHasBeatmap")

MatchLock(p, slot_id) ==
  /\ p \in inflight
  /\ pmatch[p] # None
  /\ LET m == matches[pmatch[p]] IN
     IF p # m.host
     THEN Dropped(p, "MatchLock")
     ELSE /\ slot_id \in SlotIds
          /\ IF m.slots[slot_id].status = "locked"
             THEN Changed(p, [m EXCEPT !.slots[slot_id].status = "open"], "MatchLock", {})
             ELSE LET s1 == IF m.slots[slot_id].player # None
                            THEN Slot_reset(m.slots[slot_id])
                            ELSE m.slots[slot_id]
                  IN Changed(p, [m EXCEPT !.slots[slot_id] = [s1 EXCEPT !.status = "locked"]],
                             "MatchLock", {})

\* freemods switched on by the change-settings packet
SettingsFreemodsOn(m) ==
  [m EXCEPT !.freemods = TRUE,
            !.slots = [i \in SlotIds |->
               IF m.slots[i].status \in has_player
               THEN [m.slots[i] EXCEPT !.mods = m.mods \ SPEED_CHANGING_MODS]
               ELSE m.slots[i]],
            !.mods = m.mods \ SPEED_CHANGING_MODS]

\* freemods switched off: the match keeps its speed-changing mods and takes
\* the mods of the host's slot; every slot with a player loses its mods.
FreemodsOff(m) ==
  [m EXCEPT !.freemods = FALSE,
            !.mods = (m.mods \cap SPEED_CHANGING_MODS)
                       \cup m.slots[Match_get_host_slot(m)].mods,
            !.slots = [i \in SlotIds |->
               IF m.slots[i].status \in has_player
               THEN [m.slots[i] EXCEPT !.mods = NOMOD]
               ELSE m.slots[i]]]

\* ... with no slot of the host: host.mods raises after these assignments.
FreemodsOffRaised(m) ==
  [m EXCEPT !.freemods = FALSE, !.mods = m.mods \cap SPEED_CHANGING_MODS]

\* The default team of a team type: neutral for head-to-head and tag-coop,
\* red for the others.
DefaultTeam(team_type) ==
  IF team_type \in {"head_to_head", "tag_coop"} THEN "neutral" ELSE "red"

\* The team type becomes team_type and every slot with a player takes its
\* default team.
SetTeamType(m, team_type) ==
  [m EXCEPT !.team_type = team_type,
            !.slots = [i \in SlotIds |->
               IF m.slots[i].status \in has_player
               THEN [m.slots[i] EXCEPT !.team = DefaultTeam(team_type)]
               ELSE m.slots[i]]]

\* The packet carries the freemods flag, the map (NoMap while the host
\* selects one) and the team type of the room as the host's client has it.
MatchChangeSettings(p, new_freemods, new_map_id, new_team_type) ==
  /\ p \in inflight
  /\ pmatch[p] # None
  /\ LET m == matches[pmatch[p]]
         toggled == new_freemods # m.freemods
         m1 == IF ~toggled THEN m
               ELSE IF new_freemods THEN SettingsFreemodsOn(m)
               ELSE FreemodsOff(m)
         m2 == IF new_map_id = NoMap THEN Match_unready_players(m1, "ready") ELSE m1
         m3 == [m2 EXCEPT !.map_id = new_map_id]
         m4 == IF m3.team_type # new_team_type THEN SetTeamType(m3, new_team_type) ELSE m3
     IN
     IF p # m.host
     THEN Dropped(p, "MatchChangeSettings")
     ELSE IF toggled /\ ~new_freemods /\ Match_get_host_slot(m) = None
     THEN RaisedAfter(p, FreemodsOffRaised(m), "MatchChangeSettings", {})
     ELSE Changed(p, m4, "MatchChangeSettings", {})

\* Match.start() called by the handler op: unless the match is in progress,
\* matchStart goes to the members that have the map, then the state.
Started(p, op) ==
  LET m == matches[pmatch[p]]
      no_map == {m.slots[i].player : i \in {j \in SlotIds : m.slots[j].status = "no_map"}}
  IN
  IF ~Match_can_start(m)
  THEN Dropped(p, op)
  ELSE Changed(p, Match_start(m), op, Match_enqueue(chat, pmatch[p], "matchStart", no_map))

MatchStart(p) ==
  /\ p \in inflight
  /\ pmatch[p] # None
  /\ IF p # matches[pmatch[p]].host
     THEN Dropped(p, "MatchStart")
     ELSE Started(p, "MatchStart")

MatchComplete(p) ==
  /\ p \in inflight
  /\ pmatch[p] # None
  /\ LET m == matches[pmatch[p]]
         sid == Match_get_slot_id(m, p)
         m1 == [m EXCEPT !.slots[sid].status = "complete"]
         m2 == [Match_unready_players(m1, "complete") EXCEPT !.in_progress = FALSE]
         not_playing == {m1.slots[i].player :
                           i \in {j \in SlotIds : /\ m1.slots[j].status \in has_player
                                                  /\ m1.slots[j].status # "complete"}}
     IN
     IF sid = None
     THEN Raised(p, "MatchComplete")
     ELSE IF \E i \in SlotIds : m1.slots[i].status = "playing"
     THEN Altered(p, m1, "MatchComplete")
     ELSE Changed(p, m2, "MatchComplete",
                  Match_enqueue(chat, pmatch[p], "matchComplete", not_playing))

MatchChangeMods(p, mods) ==
  /\ p \in inflight
  /\ pmatch[p] # None
  /\ LET m == matches[pmatch[p]]
         sid == Match_get_slot_id(m, p)
         m1 == IF p = m.host THEN [m EXCEPT !.mods = mods \cap SPEED_CHANGING_MODS] ELSE m
     IN
     IF m.freemods
     THEN IF sid = None
          THEN RaisedAfter(p, m1, "MatchChangeMods", {})
          ELSE Changed(p, [m1 EXCEPT !.slots[sid].mods = mods \ SPEED_CHANGING_MODS],
                       "MatchChangeMods", {})
     ELSE IF p # m.host
          THEN Dropped(p, "MatchChangeMods")
          ELSE Changed(p, [m EXCEPT !.mods = mods], "MatchChangeMods", {})

MatchTransferHost(p, slot_id) ==
  /\ p \in inflight
  /\ pmatch[p] # None
  /\ LET m == matches[pmatch[p]] IN
     IF p # m.host
     THEN Dropped(p, "MatchTransferHost")
     ELSE /\ slot_id \in SlotIds
          /\ m.slots[slot_id].player # None
          /\ Changed(p, [m EXCEPT !.host = m.slots[slot_id].player], "MatchTransferHost",
                     {<<m.slots[slot_id].player, "matchTransferHost">>})

\* MatchChangeTeam.handle: the slot of the sender changes from blue to red,
\* and from any other team to blue.
MatchChangeTeam(p) ==
  /\ p \in inflight
  /\ pmatch[p] # None
  /\ LET m == matches[pmatch[p]]
         sid == Match_get_slot_id(m, p)
     IN
     IF sid = None
     THEN Raised(p, "MatchChangeTeam")
     ELSE Changed(p, [m EXCEPT !.slots[sid].team = IF @ = "blue" THEN "red" ELSE "blue"],
                  "MatchChangeTeam", {})

MatchChangePassword(p, passwd) ==
  /\ p \in inflight
  /\ pmatch[p] # None
  /\ LET m == matches[pmatch[p]] IN
     IF p # m.host
     THEN Dropped(p, "MatchChangePassword")
     ELSE Changed(p, [m EXCEPT !.passwd = passwd], "MatchChangePassword", {})


(***************************************************************************)
(* The !mp commands of constants/commands.py, reached through SendMessage  *)
(* and process_commands: the sender has a match, wrote to its channel and  *)
(* is one of its referees (Match.refs: the host among them) or holds the   *)
(* tournament privilege.                                                   *)
(***************************************************************************)
Match_refs(m) == {m.host}

process_commands_mp(p) ==
  /\ p \in inflight
  /\ pmatch[p] # None
  /\ (p \in Match_refs(matches[pmatch[p]]) \/ p \in Tournament)

\* !mp start and !mp start force
mp_start(p, force) ==
  /\ process_commands_mp(p)
  /\ LET m == matches[pmatch[p]] IN
     /\ force \/ (/\ m.timer = None
                  /\ ~ \E i \in SlotIds : m.slots[i].status = "not_ready")
     /\ Started(p, "mp_start")

\* The seconds before the start at which an alert is sent, the longest
\* duration of a timer in the model, and the durations a command carries.
AlertTimes == {60, 30, 10, 5, 4, 3, 2, 1}
MaxDuration == 3
Durations == 1 .. MaxDuration
StartCallback == 0

\* !mp start N: the start and the alerts are queued on the loop for the sender.
mp_start_timer(p, duration) ==
  /\ process_commands_mp(p)
  /\ LET m == matches[pmatch[p]]
         alerts == {t \in AlertTimes : t < duration}
     IN
     /\ m.timer = None
     /\ Altered(p, [m EXCEPT !.timer = p, !.alerts = alerts,
                             !.loop = @ \cup {StartCallback} \cup alerts],
                "mp_start_timer")

\* The timers that !mp start cancel cancels.
Cancelled_start_only(m) == {StartCallback}

Cancelled(m) == {StartCallback} \cup m.alerts

\* !mp start cancel
mp_start_cancel(p) ==
  /\ process_commands_mp(p)
  /\ LET m == matches[pmatch[p]] IN
     /\ m.timer # None
     /\ Altered(p, [m EXCEPT !.loop = @ \ Cancelled(m), !.timer = None, !.alerts = {}],
                "mp_start_cancel")

\* The callback of the loop that is due first: the alert of the most seconds,
\* and _start after every alert.
Loop_next(m) == CHOOSE t \in m.loop : \A u \in m.loop : u <= t

\* _alert_start, called by the loop: the bot announces the start to the
\* channel of the match.
AlertTimer(id) ==
  /\ matches[id] # NoMatch
  /\ matches[id].loop # {}
  /\ Loop_next(matches[id]) # StartCallback
  /\ LET m == matches[id] IN
     /\ matches' = [matches EXCEPT ![id] = [m EXCEPT !.loop = @ \ {Loop_next(m)}]]
     /\ Record("AlertTimer", m.timer, Match_enqueue(chat, id, "sendMessage", {}))
  /\ UNCHANGED <<players, hastoken, inflight, pmatch, registry, chat>>
  /\ UNCHANGED notMatchVars

\* _start, called by the loop when the timer of the match expires: the
\* timers are removed, and the match is started unless the session that
\* queued the start has left it.
StartTimer(id) ==
  /\ matches[id] # NoMatch
  /\ matches[id].loop # {}
  /\ Loop_next(matches[id]) = StartCallback
  /\ LET m == matches[id]
         t == m.timer
         m1 == [m EXCEPT !.timer = None, !.alerts = {}, !.loop = @ \ {StartCallback}]
         no_map == {m.slots[i].player : i \in {j \in SlotIds : m.slots[j].status = "no_map"}}
     IN
     IF (\A i \in SlotIds : m.slots[i].player # t) \/ ~Match_can_start(m)
     THEN /\ matches' = [matches EXCEPT ![id] = m1]
          /\ Record("StartTimer", t, {})
     ELSE /\ matches' = [matches EXCEPT ![id] = Match_start(m1)]
          /\ Record("StartTimer", t,
                    Match_enqueue(chat, id, "matchStart", no_map)
                      \cup Match_enqueue_state(chat, id, Match_start(m1)))
  /\ UNCHANGED <<players, hastoken, inflight, pmatch, registry, chat>>
  /\ UNCHANGED notMatchVars

mp_abort(p) ==
  /\ process_commands_mp(p)
  /\ LET m == matches[pmatch[p]] IN
     /\ m.in_progress
     /\ Changed(p, [Match_unready_players(m, "playing") EXCEPT !.in_progress = FALSE],
                "mp_abort", Match_enqueue(chat, pmatch[p], "matchAbort", {}))

\* !mp map <beatmapid>
mp_map(p, map_id) ==
  /\ process_commands_mp(p)
  /\ LET m == matches[pmatch[p]] IN
     /\ map_id # m.map_id
     /\ Changed(p, [m EXCEPT !.map_id = map_id], "mp_map", {})

\* The command op of p returned its message and changed nothing.
Refused(p, op, pick) ==
  /\ RecordArg(op, p, [NoArg EXCEPT !.pick = pick], {})
  /\ UNCHANGED <<players, hastoken, inflight, pmatch, matches, registry, chat>>
  /\ UNCHANGED notMatchVars

\* The command op of p changed its match into m2 and returned its message.
Answered(p, m2, op, pick) ==
  /\ matches' = [matches EXCEPT ![pmatch[p]] = m2]
  /\ RecordArg(op, p, [NoArg EXCEPT !.pick = pick], {})
  /\ UNCHANGED <<players, hastoken, inflight, pmatch, registry, chat>>
  /\ UNCHANGED notMatchVars

\* !mp loadpool <name>
mp_loadpool(p, name) ==
  /\ process_commands_mp(p)
  /\ LET m == matches[pmatch[p]] IN
     IF p # m.host \/ name \notin PoolNames \/ m.pool = name
     THEN Refused(p, "mp_loadpool", NoPick)
     ELSE Answered(p, [m EXCEPT !.pool = name], "mp_loadpool", NoPick)

\* !mp unloadpool
mp_unloadpool(p) ==
  /\ process_commands_mp(p)
  /\ LET m == matches[pmatch[p]] IN
     IF p # m.host \/ m.pool = NoPool
     THEN Refused(p, "mp_unloadpool", NoPick)
     ELSE Answered(p, [m EXCEPT !.pool = NoPool], "mp_unloadpool", NoPick)

\* (mods, slot) in ctx.match.bans, as mp_pick reads it
Banned_never(m, pick) == FALSE

Banned(m, pick) == pick \in m.bans

\* !mp ban <pick>
mp_ban(p, pick) ==
  /\ process_commands_mp(p)
  /\ LET m == matches[pmatch[p]] IN
     IF m.pool = NoPool
     THEN Refused(p, "mp_ban", pick)
     ELSE IF pick \notin DOMAIN Pool_maps(m.pool) \/ pick \in m.bans
     THEN Refused(p, "mp_ban", pick)
     ELSE Answered(p, [m EXCEPT !.bans = @ \cup {pick}], "mp_ban", pick)

\* !mp unban <pick>
mp_unban(p, pick) ==
  /\ process_commands_mp(p)
  /\ LET m == matches[pmatch[p]] IN
     IF m.pool = NoPool
     THEN Refused(p, "mp_unban", pick)
     ELSE IF pick \notin DOMAIN Pool_maps(m.pool) \/ pick \notin m.bans
     THEN Refused(p, "mp_unban", pick)
     ELSE Answered(p, [m EXCEPT !.bans = @ \ {pick}], "mp_unban", pick)

\* !mp pick <pick>: for a pick of the pool loaded that is not banned, the
\* map becomes the map of the pick, freemods end and the mods become those
\* of the pick.
mp_pick(p, pick) ==
  /\ process_commands_mp(p)
  /\ LET m == matches[pmatch[p]] IN
     IF m.pool = NoPool
     THEN Refused(p, "mp_pick", pick)
     ELSE IF pick \notin DOMAIN Pool_maps(m.pool) \/ Banned(m, pick)
     THEN Refused(p, "mp_pick", pick)
     ELSE LET m1 == [m EXCEPT !.map_id = Pool_maps(m.pool)[pick]]
              m2 == IF m1.freemods
                    THEN [m1 EXCEPT !.freemods = FALSE,
                                    !.slots = [i \in SlotIds |->
                                       IF m1.slots[i].status \in has_player
                                       THEN [m1.slots[i] EXCEPT !.mods = NOMOD]
                                       ELSE m1.slots[i]]]
                    ELSE m1
              m3 == [m2 EXCEPT !.mods = pick[1]]
          IN
          /\ matches' = [matches EXCEPT ![pmatch[p]] = m3]
          /\ inflight' = Aborted(p, write_match_raises(m3))
          /\ RecordArg("mp_pick", p, [NoArg EXCEPT !.pick = pick],
                       Match_enqueue_state(chat, pmatch[p], m3))
          /\ UNCHANGED <<players, hastoken, pmatch, registry, chat>>
          /\ UNCHANGED notMatchVars

\* !mp teams <type>
mp_teams(p, team_type) ==
  /\ process_commands_mp(p)
  /\ Changed(p, SetTeamType(matches[pmatch[p]], team_type), "mp_teams", {})

mp_mods(p, mods) ==
  /\ process_commands_mp(p)
  /\ LET m == matches[pmatch[p]]
         sid == Match_get_slot_id(m, p)
         m1 == IF p = m.host THEN [m EXCEPT !.mods = mods \cap SPEED_CHANGING_MODS] ELSE m
     IN
     IF m.freemods
     THEN IF sid = None
          THEN RaisedAfter(p, m1, "mp_mods", {})
          ELSE Changed(p, [m1 EXCEPT !.slots[sid].mods = mods \ SPEED_CHANGING_MODS],
                       "mp_mods", {})
     ELSE Changed(p, [m EXCEPT !.mods = mods], "mp_mods", {})

\* !mp freemods on
CommandFreemodsOn(m) ==
  [m EXCEPT !.freemods = TRUE,
            !.slots = [i \in SlotIds |->
               IF m.slots[i].status \in has_player
               THEN [m.slots[i] EXCEPT !.mods = m.mods \ SPEED_CHANGING_MODS]
               ELSE m.slots[i]],
            !.mods = m.mods \cap SPEED_CHANGING_MODS]

mp_freemods(p, on) ==
  /\ process_commands_mp(p)
  /\ LET m == matches[pmatch[p]] IN
     IF on
     THEN Changed(p, CommandFreemodsOn(m), "mp_freemods", {})
     ELSE IF Match_get_host_slot(m) = None
          THEN RaisedAfter(p, FreemodsOffRaised(m), "mp_freemods", {})
          ELSE Changed(p, FreemodsOff(m), "mp_freemods", {})

mp_host(p, t) ==
  /\ process_commands_mp(p)
  /\ LET m == matches[pmatch[p]] IN
     /\ t \in players
     /\ t # m.host
     /\ \E i \in SlotIds : m.slots[i].player = t
     /\ Changed(p, [m EXCEPT !.host = t], "mp_host", {<<t, "matchTransferHost">>})

\* Holders of Privileges.Admin: the staff of the model.
Admins == Staff

\* !mp force <name>: the session of that name joins the sender's match with
\* the match's own password.  A name that is not online is answered with a
\* message.
mp_force(p, t) ==
  /\ process_commands_mp(p)
  /\ p \in Admins
  /\ IF t \notin players
     THEN /\ UNCHANGED <<pmatch, matches, chat, inflight>>
          /\ RecordArg("mp_force", p, [NoArg EXCEPT !.id = t], {})
     ELSE LET id == pmatch[p]
              r == join_match(t, id, matches[id].passwd, matches, chat)
          IN
          /\ pmatch' = r.pmatch
          /\ matches' = r.matches
          /\ chat' = r.chat
          /\ inflight' = Aborted(p, r.raised)
          /\ RecordArg("mp_force", p, [NoArg EXCEPT !.id = t], r.sent)
  /\ UNCHANGED <<players, hastoken, registry>>
  /\ UNCHANGED notMatchVars

(***************************************************************************)
(* login() of domains/cho.py as far as the match handlers see it: a        *)
(* session of the name is evicted when it is stale, and a new session is   *)
(* registered when the credentials are accepted.                           *)
(***************************************************************************)
Login(u, stale, ok) ==
  /\ UNCHANGED notMatchVars
  /\ IF u \in players
     THEN /\ stale
          /\ LET r == leave_match(u) IN
             /\ hastoken' = IF ~r.raised /\ ok THEN hastoken \cup {u} ELSE hastoken \ {u}
             /\ pmatch' = r.pmatch
             /\ registry' = r.registry
             /\ matches' = Collect(r.matches, r.registry, r.pmatch)
             /\ chat' = CollectChat(r.chat, r.registry, r.pmatch)
             /\ players' = IF r.raised \/ ok THEN players ELSE players \ {u}
             /\ (ok /\ ~r.raised) =>
                  UnreferencedIn(u, r.pmatch, Collect(r.matches, r.registry, r.pmatch), r.chat)
             /\ Record("Login", u, r.sent)
             /\ UNCHANGED inflight
     ELSE /\ ok
          /\ Unreferenced(u)
          /\ players' = players \cup {u}
          /\ hastoken' = hastoken \cup {u}
          /\ Record("Login", u, {})
          /\ UNCHANGED <<inflight, pmatch, matches, registry, chat>>

MatchInit ==
  /\ players = {BotId}
  /\ hastoken = {}
  /\ inflight = {}
  /\ pmatch = [p \in Sessions |-> None]
  /\ matches = [id \in MatchIds |-> NoMatch]
  /\ registry = {}
  /\ chat = [id \in MatchIds |-> {}]
  /\ recording = FALSE
  /\ last = NoStep
  /\ sent = {}

\* The handlers, with the values that the packets and commands carry drawn
\* from the sets given: mods, freemods flags, passwords, team types and maps.
MatchCommon(ModsIn, FlagsIn, PasswdsIn, TeamTypesIn, MapsIn) ==
  \/ \E u \in Users, stale \in BOOLEAN, ok \in BOOLEAN : Login(u, stale, ok)
  \/ \E p \in Users : BeginRequest(p)
  \/ \E p \in Users : EndRequest(p)
  \/ \E p \in Users : Logout(p)
  \/ \E p \in Users, host_id \in Sessions \cup {0}, mods \in ModsIn,
        freemods \in FlagsIn, passwd \in PasswdsIn, tt \in TeamTypesIn, map \in MapsIn :
       MatchCreate(p, host_id, mods, freemods, passwd, tt, map)
  \/ \E p \in Users, id \in MatchIds, passwd \in PasswdsIn : MatchJoin(p, id, passwd)
  \/ \E p \in Users : MatchPart(p)
  \/ \E p \in Users, slot_id \in SlotIds : MatchChangeSlot(p, slot_id)
  \/ \E p \in Users, slot_id \in SlotIds : MatchLock(p, slot_id)
  \/ \E p \in Users, fm \in FlagsIn, map \in MapsIn \cup {NoMap}, tt \in TeamTypesIn :
       MatchChangeSettings(p, fm, map, tt)
  \/ \E p \in Users, mods \in ModsIn : MatchChangeMods(p, mods)
  \/ \E p \in Users, slot_id \in SlotIds : MatchTransferHost(p, slot_id)
  \/ \E p \in Users, mods \in ModsIn : mp_mods(p, mods)
  \/ \E p \in Users, on \in FlagsIn : mp_freemods(p, on)
  \/ \E p \in Users, t \in Sessions : mp_host(p, t)

MatchPlay ==
  \/ \E p \in Users : MatchReady(p)
  \/ \E p \in Users : MatchNoBeatmap(p)
  \/ \E p \in Users : MatchNotReady(p)
  \/ \E p \in Users : MatchHasBeatmap(p)
  \/ \E p \in Users : MatchStart(p)
  \/ \E p \in Users : MatchComplete(p)
  \/ \E p \in Users, force \in BOOLEAN : mp_start(p, force)
  \/ \E p \in Users : mp_abort(p)

\* The same, with the handlers and their packets recorded.
MatchInitRecorded ==
  /\ players = {BotId}
  /\ hastoken = {}
  /\ inflight = {}
  /\ pmatch = [p \in Sessions |-> None]
  /\ matches = [id \in MatchIds |-> NoMatch]
  /\ registry = {}
  /\ chat = [id \in MatchIds |-> {}]
  /\ recording = TRUE
  /\ last = NoStep
  /\ sent = {}

\* The handlers of a room and of its host, over rooms without mods.
RoomNext ==
  \/ \E u \in Users, stale \in BOOLEAN, ok \in BOOLEAN : Login(u, stale, ok)
  \/ \E p \in Users : BeginRequest(p)
  \/ \E p \in Users : EndRequest(p)
  \/ \E p \in Users : Logout(p)
  \/ \E p \in Users, passwd \in Passwds :
       MatchCreate(p, p, NOMOD, FALSE, passwd, "head_to_head", 1)
  \/ \E p \in Users, id \in MatchIds \cup {NMatches}, passwd \in Passwds :
       MatchJoin(p, id, passwd)
  \/ \E p \in Users : MatchPart(p)
  \/ \E p \in Users, slot_id \in SlotIds : MatchChangeSlot(p, slot_id)
  \/ \E p \in Users, slot_id \in SlotIds : MatchLock(p, slot_id)
  \/ \E p \in Users : MatchChangeSettings(p, FALSE, 1, "head_to_head")
  \/ \E p \in Users : MatchStart(p)
  \/ \E p \in Users, slot_id \in SlotIds : MatchTransferHost(p, slot_id)
  \/ \E p \in Users, passwd \in Passwds : MatchChangePassword(p, passwd)

\* The handlers of a round and of the map, over rooms without mods and passwords.
PlayNext ==
  \/ \E u \in Users, stale \in BOOLEAN, ok \in BOOLEAN : Login(u, stale, ok)
  \/ \E p \in Users : BeginRequest(p)
  \/ \E p \in Users : EndRequest(p)
  \/ \E p \in Users, map \in MapIds :
       MatchCreate(p, p, NOMOD, FALSE, "", "head_to_head", map)
  \/ \E p \in Users, id \in MatchIds : MatchJoin(p, id, "")
  \/ \E p \in Users : MatchPart(p)
  \/ \E p \in Users, map \in MapIds \cup {NoMap} :
       MatchChangeSettings(p, FALSE, map, "head_to_head")
  \/ \E p \in Users : MatchReady(p)
  \/ \E p \in Users : MatchStart(p)
  \/ \E p \in Users : MatchComplete(p)
  \/ \E p \in Users, force \in BOOLEAN : mp_start(p, force)
  \/ \E p \in Users : mp_start_timer(p, 1)
  \/ \E p \in Users : mp_start_cancel(p)
  \/ \E id \in MatchIds : StartTimer(id)
  \/ \E p \in Users : mp_abort(p)
  \/ \E p \in Users, map \in MapIds : mp_map(p, map)

\* The start of a match, at once or by a timer with its alerts.
TimerNext ==
  \/ \E u \in Users, stale \in BOOLEAN, ok \in BOOLEAN : Login(u, stale, ok)
  \/ \E p \in Users : BeginRequest(p)
  \/ \E p \in Users : EndRequest(p)
  \/ \E p \in Users : MatchCreate(p, p, NOMOD, FALSE, "", "head_to_head", 1)
  \/ \E p \in Users, id \in MatchIds : MatchJoin(p, id, "")
  \/ \E p \in Users : MatchPart(p)
  \/ \E p \in Users : MatchComplete(p)
  \/ \E p \in Users : mp_start(p, TRUE)
  \/ \E p \in Users, duration \in Durations : mp_start_timer(p, duration)
  \/ \E p \in Users : mp_start_cancel(p)
  \/ \E id \in MatchIds : AlertTimer(id)
  \/ \E id \in MatchIds : StartTimer(id)

\* The mappool commands of a match, over rooms with freemods and slot mods.
PoolNext ==
  \/ \E u \in Users, stale \in BOOLEAN, ok \in BOOLEAN : Login(u, stale, ok)
  \/ \E p \in Users : BeginRequest(p)
  \/ \E p \in Users : EndRequest(p)
  \/ \E p \in Users, fm \in BOOLEAN :
       MatchCreate(p, p, NOMOD, fm, "", "head_to_head", 1)
  \/ \E p \in Users, id \in MatchIds : MatchJoin(p, id, "")
  \/ \E p \in Users : MatchPart(p)
  \/ \E p \in Users : MatchChangeMods(p, {"HD"})
  \/ \E p \in Users, name \in PoolNames \cup {0} : mp_loadpool(p, name)
  \/ \E p \in Users : mp_unloadpool(p)
  \/ \E p \in Users, pick \in Picks : mp_ban(p, pick)
  \/ \E p \in Users, pick \in Picks : mp_unban(p, pick)
  \/ \E p \in Users, pick \in Picks : mp_pick(p, pick)

\* The handlers that put a session into a slot or take it out of one, over
\* rooms without mods and passwords, created for any host.
ForceNext ==
  \/ \E u \in Users, stale \in BOOLEAN, ok \in BOOLEAN : Login(u, stale, ok)
  \/ \E p \in Users : BeginRequest(p)
  \/ \E p \in Users : EndRequest(p)
  \/ \E p \in Users : Logout(p)
  \/ \E p \in Users, host_id \in Sessions \cup {0} :
       MatchCreate(p, host_id, NOMOD, FALSE, "", "head_to_head", 1)
  \/ \E p \in Users, id \in MatchIds : MatchJoin(p, id, "")
  \/ \E p \in Users : MatchPart(p)
  \/ \E p \in Users, slot_id \in SlotIds : MatchChangeSlot(p, slot_id)
  \/ \E p \in Users, slot_id \in SlotIds : MatchLock(p, slot_id)
  \/ \E p \in Users, t \in Sessions \cup {0} : mp_force(p, t)

\* The handlers that read or write the team type of a match or the team of
\* a slot, over rooms without mods and passwords.
TeamsNext ==
  \/ \E u \in Users, stale \in BOOLEAN, ok \in BOOLEAN : Login(u, stale, ok)
  \/ \E p \in Users : BeginRequest(p)
  \/ \E p \in Users : EndRequest(p)
  \/ \E p \in Users, tt \in TeamTypes : MatchCreate(p, p, NOMOD, FALSE, "", tt, 1)
  \/ \E p \in Users, id \in MatchIds : MatchJoin(p, id, "")
  \/ \E p \in Users : MatchPart(p)
  \/ \E p \in Users, slot_id \in SlotIds : MatchChangeSlot(p, slot_id)
  \/ \E p \in Users, tt \in TeamTypes : MatchChangeSettings(p, FALSE, 1, tt)
  \/ \E p \in Users : MatchChangeTeam(p)
  \/ \E p \in Users, tt \in TeamTypes : mp_teams(p, tt)

vars == <<matchVars, loginVars, queueVars, scoreVars, friendVars, cacheVars, codecVars,
          chanVars>>

(***************************************************************************)
(* Login: bancho_handler without an osu-token header, and login().         *)
(***************************************************************************)
\* login requests that may be in progress at once
NLogins == 2
\* Player objects constructed by logins over a behaviour
MaxObjects == 2
\* time.time() when the server starts, the step of the clock, and its steps
StartTime == 20
TickStep == 5
MaxTicks == 3
\* login(): `(login_time - p.last_recv_time) > 10`
LoginTimeout == 10
\* Logout.handle: `(time.time() - p.login_time) < 1`
LogoutGrace == 1

LoginIds == 1 .. NLogins

\* Names are sequences of characters.
BotName == <<"B", "o">>
LowerCase == [c \in {"A", "B", "a", "b", "o", " ", "_"} |->
                CASE c = "A" -> "a" [] c = "B" -> "b" [] OTHER -> c]

\* make_safe_name: name.lower().replace(' ', '_')
make_safe_name(name) ==
  [i \in 1 .. Len(name) |-> IF LowerCase[name[i]] = " " THEN "_" ELSE LowerCase[name[i]]]

\* The users table: the bot is user 1.
DbUsers == {[id |-> BotId, name |-> BotName], [id |-> 3, name |-> <<"A", " ", "b">>]}

\* The user names that login requests carry.
WireNames == {<<"b", "o">>, <<"A", " ", "b">>, <<"a", "_", "b">>, <<"a", "a">>}

\* Player.__init__: token defaults to '', login_time is 0.0 and last_recv_time
\* is read from the keyword last_recv_time, 0.0 when absent.
EmptyToken == 0
DefaultTime == 0

\* glob.bot: Player(id=1, name=..., login_time=float(0x7fffffff), ...)
BotObject == [token |-> EmptyToken, id |-> BotId, name |-> BotName, login_time |-> DefaultTime]

\* glob.players.get(name=username): the first session of that safe name
Players_get_name(username) ==
  {p \in online : make_safe_name(p.name) = make_safe_name(username)}

\* glob.players.get(token=...)
Players_get_token(token) == {p \in online : p.token = token}

\* SELECT ... FROM users WHERE safe_name = make_safe_name(username)
Db_fetch(username) ==
  {u \in DbUsers : make_safe_name(u.name) = make_safe_name(username)}

\* The lock never held.
Lock_free_unlocked == TRUE

\* `async with glob.players._lock`: the lock can be taken
Lock_free == lock = None

\* A session silent for exactly the timeout counted as stale.
Stale_inclusive(login_time, p) == (login_time - last_recv[p.token]) >= LoginTimeout

\* login(): the session found has been silent for longer than the timeout
Stale(login_time, p) == (login_time - last_recv[p.token]) > LoginTimeout

\* logged_out: the token of the session that this call of login() has logged
\* out, None when it has logged out none.
Idle == [pc |-> "idle", username |-> <<>>, login_time |-> DefaultTime, result |-> "none",
         logged_out |-> None]

\* The request has left login() with the reply r.
Reply(r) == [Idle EXCEPT !.pc = "reply", !.result = r]

\* A login request arrives and waits for glob.players._lock.
LoginArrive(l, username) ==
  /\ logins[l].pc = "idle"
  /\ logins' = [logins EXCEPT ![l] = [Idle EXCEPT !.pc = "waiting", !.username = username]]
  /\ UNCHANGED <<now, online, last_recv, objects, lock>>
  /\ UNCHANGED notLoginVars

\* The request takes the lock and runs login() up to its first query: the
\* body is parsed (kind: what the parse finds), the client version checked,
\* and a session of the name is logged out when it is stale; otherwise the
\* login is refused.
LoginCheck(l, kind) ==
  /\ logins[l].pc = "waiting"
  /\ Lock_free
  /\ LET req == logins[l]
         found == Players_get_name(req.username)
         p == CHOOSE q \in found : TRUE
         refuse(r) == /\ logins' = [logins EXCEPT ![l] = Reply(r)]
                      /\ UNCHANGED <<online, lock>>
     IN
     CASE kind = "malformed" -> refuse("invalid")
       [] kind = "outdated" -> refuse("userID(-2)")
       [] OTHER ->
          IF found # {} /\ ~Stale(now, p)
          THEN refuse("userID(-1) already logged in")
          ELSE /\ online' = IF found # {} THEN online \ {p} ELSE online
               /\ lock' = l
               /\ logins' = [logins EXCEPT ![l].pc = "query", ![l].login_time = now,
                                           ![l].logged_out =
                                             IF found # {} THEN p.token ELSE None]
  /\ UNCHANGED <<now, last_recv, objects>>
  /\ UNCHANGED notLoginVars

\* The users query and the checks of the credentials and of the privileges.
LoginQuery(l, pw_ok, banned) ==
  /\ logins[l].pc = "query"
  /\ LET rows == Db_fetch(logins[l].username)
         refuse(r) == /\ logins' = [logins EXCEPT ![l] =
                                       [Reply(r) EXCEPT !.logged_out = logins[l].logged_out]]
                      /\ lock' = None
     IN
     IF rows = {} \/ ~pw_ok THEN refuse("userID(-1)")
     ELSE IF banned THEN refuse("userID(-3)")
     ELSE /\ logins' = [logins EXCEPT ![l].pc = "register"]
          /\ UNCHANGED lock
  /\ UNCHANGED <<now, online, last_recv, objects>>
  /\ UNCHANGED notLoginVars

\* Player.login(), glob.players.append(p), and the lock is released.
LoginRegister(l) ==
  /\ logins[l].pc = "register"
  /\ objects < MaxObjects
  /\ LET row == CHOOSE u \in Db_fetch(logins[l].username) : TRUE
         p == [token |-> objects + 1, id |-> row.id, name |-> row.name,
               login_time |-> logins[l].login_time]
     IN
     /\ online' = online \cup {p}
     /\ last_recv' = [last_recv EXCEPT ![p.token] = logins[l].login_time]
     /\ objects' = objects + 1
  /\ lock' = None
  /\ logins' = [logins EXCEPT ![l] =
                   [Reply("logged in") EXCEPT !.logged_out = logins[l].logged_out]]
  /\ UNCHANGED now
  /\ UNCHANGED notLoginVars

\* The reply of the login request is sent.
LoginReply(l) ==
  /\ logins[l].pc = "reply"
  /\ logins' = [logins EXCEPT ![l] = Idle]
  /\ UNCHANGED <<now, online, last_recv, objects, lock>>
  /\ UNCHANGED notLoginVars

\* A gateway request with an osu-token header; with_logout: its body holds a
\* Logout packet.  player.last_recv_time = time.time() ends the request.
TokenRequest(token, with_logout) ==
  /\ Players_get_token(token) # {}
  /\ LET p == CHOOSE q \in Players_get_token(token) : TRUE IN
     /\ online' = IF with_logout /\ ~((now - p.login_time) < LogoutGrace)
                  THEN online \ {p} ELSE online
     /\ last_recv' = [last_recv EXCEPT ![p.token] = now]
  /\ UNCHANGED <<now, objects, lock, logins>>
  /\ UNCHANGED notLoginVars

\* Time passes.
Tick ==
  /\ now < StartTime + TickStep * MaxTicks
  /\ now' = now + TickStep
  /\ UNCHANGED <<online, last_recv, objects, lock, logins>>
  /\ UNCHANGED notLoginVars

LoginInit ==
  /\ now = StartTime
  /\ online = {BotObject}
  /\ last_recv = [o \in 0 .. MaxObjects |-> DefaultTime]
  /\ objects = 0
  /\ lock = None
  /\ logins = [l \in LoginIds |-> Idle]

LoginNext ==
  \/ \E l \in LoginIds, username \in WireNames : LoginArrive(l, username)
  \/ \E l \in LoginIds, kind \in {"current", "outdated", "malformed"} : LoginCheck(l, kind)
  \/ \E l \in LoginIds, pw_ok \in BOOLEAN, banned \in BOOLEAN : LoginQuery(l, pw_ok, banned)
  \/ \E l \in LoginIds : LoginRegister(l)
  \/ \E l \in LoginIds : LoginReply(l)
  \/ \E token \in 0 .. MaxObjects, with_logout \in BOOLEAN : TokenRequest(token, with_logout)
  \/ Tick

(***************************************************************************)
(* Gateway requests with a token: bancho_handler, Player.enqueue/dequeue.  *)
(***************************************************************************)
\* gateway requests that may be in progress at once
NRequests == 2
\* sessions that send them
NQSessions == 2
\* packets in the body of a request
MaxBody == 2

ReqIds == 1 .. NRequests
QSessions == 1 .. NQSessions

\* The packets of a body: StatsUpdateRequest, MatchJoin with a negative match
\* id, FriendAdd of another online user, and a type without a handler.
PacketTypes == {"StatsUpdateRequest", "MatchJoin", "FriendAdd", "Ping"}

\* glob.bancho_packets: the types with a registered handler
bancho_packets == PacketTypes \ {"Ping"}

Bodies == UNION {[1 .. n -> PacketTypes] : n \in 0 .. MaxBody}

\* The sequence s without the elements outside the set S.
RECURSIVE Filter(_, _)
Filter(s, S) ==
  IF s = <<>> THEN <<>>
  ELSE (IF Head(s) \in S THEN <<Head(s)>> ELSE <<>>) \o Filter(Tail(s), S)

\* Player.enqueue(b)
enqueue(q, b) == q \o b

NoRequest == [pc |-> "idle", player |-> None, body |-> <<>>, pos |-> 1,
              handled |-> <<>>, enqueued |-> <<>>, reply |-> <<>>, first |-> FALSE]

\* `for packet in BanchoPacketReader(conn.body): await packet.handle(player)`
\* from packet req.pos on, up to the first handler that waits for the
\* database or to the end of the body, where the handler dequeues the reply.
\* The result: the request and the queue of its session.
RECURSIVE RunFrom(_, _)
RunFrom(req, q) ==
  IF req.pos > Len(req.body)
  THEN [req |-> [req EXCEPT !.pc = "done", !.reply = q], q |-> <<>>]
  ELSE
    LET packet == req.body[req.pos]
        next == [req EXCEPT !.pos = req.pos + 1]
        handle == [next EXCEPT !.handled = Append(req.handled, packet)]
    IN
    CASE packet \notin bancho_packets -> RunFrom(next, q)
      [] packet = "StatsUpdateRequest" ->
           RunFrom([handle EXCEPT !.enqueued = enqueue(req.enqueued, <<"userStats">>)],
                   enqueue(q, <<"userStats">>))
      [] packet = "MatchJoin" ->
           RunFrom([handle EXCEPT !.enqueued = enqueue(req.enqueued, <<"matchJoinFail">>)],
                   enqueue(q, <<"matchJoinFail">>))
      [] packet = "FriendAdd" ->
           [req |-> [handle EXCEPT !.pc = "await"], q |-> q]

\* A request arrives, its token is that of the session p, and its packets are
\* handled up to the first wait.
RequestStart(r, p, body) ==
  /\ requests[r].pc = "idle"
  /\ p \in qplayers
  /\ LET run == RunFrom([NoRequest EXCEPT !.pc = "run", !.player = p, !.body = body],
                        queue[p])
     IN
     /\ requests' = [requests EXCEPT ![r] = run.req]
     /\ queue' = [queue EXCEPT ![p] = run.q]
  /\ UNCHANGED qplayers
  /\ UNCHANGED notQueueVars

\* The database call a handler waits for returns: the rest of the body.
RequestResume(r) ==
  /\ requests[r].pc = "await"
  /\ LET p == requests[r].player
         run == RunFrom([requests[r] EXCEPT !.pc = "run"], queue[p])
     IN
     /\ requests' = [requests EXCEPT ![r] = run.req]
     /\ queue' = [queue EXCEPT ![p] = run.q]
  /\ UNCHANGED qplayers
  /\ UNCHANGED notQueueVars

\* The reply is sent.
RequestReply(r) ==
  /\ requests[r].pc = "done"
  /\ requests' = [requests EXCEPT ![r] = NoRequest]
  /\ UNCHANGED <<queue, qplayers>>
  /\ UNCHANGED notQueueVars

\* A handler of another request enqueues to the session p: Player.enqueue.
OtherEnqueue(p) ==
  /\ p \in qplayers
  /\ queue[p] = <<>>
  /\ queue' = [queue EXCEPT ![p] = enqueue(queue[p], <<"sendMessage">>)]
  /\ UNCHANGED <<requests, qplayers>>
  /\ UNCHANGED notQueueVars

\* The session p logs out while no request of it is handled: its Player
\* object and the buffer of that object are gone with it.
QueueLogout(p) ==
  /\ p \in qplayers
  /\ \A r \in ReqIds : requests[r].player # p
  /\ qplayers' = qplayers \ {p}
  /\ queue' = [queue EXCEPT ![p] = <<>>]
  /\ UNCHANGED requests
  /\ UNCHANGED notQueueVars

\* login() under glob.players._lock, up to its wait for the database: the
\* Player object of p is made, data starts with userID, and p joins the
\* channels that are joined at login, where join_channel enqueues channelJoin
\* to p and login adds it to data as well.
QueueLoginStart(r, p, first) ==
  /\ requests[r].pc = "idle"
  /\ p \notin qplayers
  /\ \A q \in ReqIds : requests[q].pc # "login" /\ requests[q].player # p
  /\ requests' = [requests EXCEPT ![r] =
       [NoRequest EXCEPT !.pc = "login", !.player = p, !.first = first,
                         !.reply = <<"userID", "channelJoin">>]]
  /\ queue' = [queue EXCEPT ![p] = enqueue(<<>>, <<"channelJoin">>)]
  /\ UNCHANGED qplayers
  /\ UNCHANGED notQueueVars

\* While the login of p waits, a member of a channel that p has joined
\* writes to it: Channel.send enqueues the message to p.
ChannelSend(p) ==
  /\ \E r \in ReqIds : requests[r].pc = "login" /\ requests[r].player = p
  /\ queue[p] = <<"channelJoin">>
  /\ queue' = [queue EXCEPT ![p] = enqueue(queue[p], <<"sendMessage">>)]
  /\ UNCHANGED <<requests, qplayers>>
  /\ UNCHANGED notQueueVars

\* p._queue.clear() at the end of login
Queue_clear(q) == <<>>

\* The rest of login(): presences and stats are added to data, a first
\* login is sent welcome_msg by p.send, p is appended to glob.players, the
\* buffer of p is cleared and data is the reply.
QueueLoginFinish(r) ==
  /\ requests[r].pc = "login"
  /\ LET p == requests[r].player
         q == IF requests[r].first
              THEN enqueue(queue[p], <<"sendMessage">>)
              ELSE queue[p]
     IN
     /\ qplayers' = qplayers \cup {p}
     /\ queue' = [queue EXCEPT ![p] = Queue_clear(q)]
     /\ requests' = [requests EXCEPT ![r].pc = "done",
                                     ![r].reply = requests[r].reply \o <<"userPresence">>]
  /\ UNCHANGED notQueueVars

QueueInit ==
  /\ queue = [p \in QSessions |-> <<>>]
  /\ requests = [r \in ReqIds |-> NoRequest]
  /\ qplayers = QSessions

QueueNext ==
  \/ \E r \in ReqIds, p \in QSessions, body \in Bodies : RequestStart(r, p, body)
  \/ \E r \in ReqIds : RequestResume(r)
  \/ \E r \in ReqIds : RequestReply(r)
  \/ \E p \in QSessions : OtherEnqueue(p)

\* The requests with a token and the logins of the sessions that send them.
DrainNext ==
  \/ \E r \in ReqIds, p \in QSessions, body \in {<<>>, <<"StatsUpdateRequest">>, <<"FriendAdd">>} :
       RequestStart(r, p, body)
  \/ \E r \in ReqIds : RequestResume(r)
  \/ \E r \in ReqIds : RequestReply(r)
  \/ \E p \in QSessions : OtherEnqueue(p)
  \/ \E p \in QSessions : QueueLogout(p)
  \/ \E r \in ReqIds, p \in QSessions, first \in BOOLEAN : QueueLoginStart(r, p, first)
  \/ \E p \in QSessions : ChannelSend(p)
  \/ \E r \in ReqIds : QueueLoginFinish(r)

(***************************************************************************)
(* Score submission: osuSubmitModularSelector.                             *)
(***************************************************************************)
\* submissions that may be in progress at once
NSubs == 2
\* performance points of a play
MaxPP == 2
\* rows of the scores table
MaxRows == 3

SubIds == 1 .. NSubs
Checksums == {"c1", "c2"}

\* SubmissionStatus
FAILED == 0
SUBMITTED == 1
BEST == 2

\* The rows of the player on the map in the mode with status best.
BestRows(rows) == {i \in 1 .. Len(rows) : rows[i].status = BEST}

\* Score.calc_status: failed when not passed; best when no best row exists or
\* the play is better than it; submitted otherwise.
calc_status(rows, passed, pp) ==
  IF ~passed THEN FAILED
  ELSE IF BestRows(rows) = {} THEN BEST
  ELSE IF \A i \in BestRows(rows) : pp > rows[i].pp THEN BEST
  ELSE SUBMITTED

\* What Score.from_submission returns: a score with its player and map, no
\* score (the data does not parse), a score without a player (not online or
\* wrong password), or a score without a map.
SubmissionKinds == {"ok", "invalid", "offline", "nomap"}

\* rank1: the play is #1 of a map with a leaderboard and its player is not
\* restricted; announced: the play has been posted to #announce.
NoSub == [pc |-> "idle", pp |-> 0, checksum |-> "", status |-> FAILED,
          kind |-> "ok", existed |-> FALSE, reply |-> "none",
          rank1 |-> FALSE, announced |-> FALSE]

\* The duplicate check left out.
Duplicate_unchecked(rows, checksum) == FALSE

\* SELECT 1 FROM scores WHERE online_checksum = %s; db_cursor.rowcount != 0
Duplicate(rows, checksum) == \E i \in 1 .. Len(rows) : rows[i].checksum = checksum

\* The submission s is answered with r.
Replied(s, r) == [NoSub EXCEPT !.pc = "reply", !.reply = r,
                              !.kind = subs[s].kind, !.existed = subs[s].existed]

\* Score.from_submission: the play is parsed and classified against the
\* table; existed records whether a row of its checksum was in the table
\* when the submission arrived, and first whether the play ranks #1 on a
\* map with a leaderboard for a player who is not restricted.
SubmitParse(s, kind, passed, pp, checksum, first) ==
  /\ subs[s].pc = "idle"
  /\ subs' = [subs EXCEPT ![s] =
       CASE kind = "invalid" -> [NoSub EXCEPT !.pc = "parsed", !.kind = kind]
         [] kind = "ok" ->
            [NoSub EXCEPT !.pc = "parsed", !.pp = pp, !.checksum = checksum,
                          !.status = calc_status(scores, passed, pp),
                          !.rank1 = first /\ calc_status(scores, passed, pp) = BEST,
                          !.existed = \E i \in 1 .. Len(scores) : scores[i].checksum = checksum]
         [] OTHER ->
            [NoSub EXCEPT !.pc = "parsed", !.kind = kind, !.checksum = checksum,
                          !.existed = \E i \in 1 .. Len(scores) : scores[i].checksum = checksum]]
  /\ UNCHANGED <<scores, plays>>
  /\ UNCHANGED notScoreVars

\* `if not score`, `elif not score.player`, `elif not score.bmap`, then
\* SELECT 1 FROM scores WHERE online_checksum = %s: a duplicate is refused.
SubmitCheckDuplicate(s) ==
  /\ subs[s].pc = "parsed"
  /\ subs' = [subs EXCEPT ![s] =
       CASE subs[s].kind = "invalid" -> Replied(s, "error: no")
         [] subs[s].kind = "offline" -> Replied(s, "")
         [] subs[s].kind = "nomap" -> Replied(s, "error: beatmap")
         [] OTHER ->
            IF Duplicate(scores, subs[s].checksum)
            THEN Replied(s, "error: no")
            ELSE [subs[s] EXCEPT !.pc = IF subs[s].status = BEST THEN "update" ELSE "insert"]]
  /\ UNCHANGED <<scores, plays>>
  /\ UNCHANGED notScoreVars

\* The branch of a best score: a #1 is posted to #announce by
\* announce_chan.send, then UPDATE scores SET status = 1 WHERE status = 2
\* AND map_md5, userid, mode.
SubmitDemote(s) ==
  /\ subs[s].pc = "update"
  /\ scores' = [i \in 1 .. Len(scores) |->
                  IF scores[i].status = BEST THEN [scores[i] EXCEPT !.status = SUBMITTED]
                  ELSE scores[i]]
  /\ subs' = [subs EXCEPT ![s].pc = "insert", ![s].announced = subs[s].rank1]
  /\ UNCHANGED plays
  /\ UNCHANGED notScoreVars

\* INSERT INTO scores VALUES (...)
SubmitInsert(s) ==
  /\ subs[s].pc = "insert"
  /\ Len(scores) < MaxRows
  /\ scores' = Append(scores, [pp |-> subs[s].pp, checksum |-> subs[s].checksum,
                               status |-> subs[s].status])
  /\ subs' = [subs EXCEPT ![s].pc = "stats"]
  /\ UNCHANGED plays
  /\ UNCHANGED notScoreVars

\* stats.plays += 1 and the UPDATE of the stats, score.bmap.plays += 1 and
\* the UPDATE of the map; a failed play is answered `error: no`, another
\* with its chart.
SubmitStats(s) ==
  /\ subs[s].pc = "stats"
  /\ plays' = plays + 1
  /\ subs' = [subs EXCEPT ![s] =
               Replied(s, IF subs[s].status = FAILED THEN "error: no" ELSE "chart")]
  /\ UNCHANGED scores
  /\ UNCHANGED notScoreVars

\* The reply of the submission is sent.
SubmitReply(s) ==
  /\ subs[s].pc = "reply"
  /\ subs' = [subs EXCEPT ![s] = NoSub]
  /\ UNCHANGED <<scores, plays>>
  /\ UNCHANGED notScoreVars

ScoreInit ==
  /\ scores = <<>>
  /\ plays = 0
  /\ subs = [s \in SubIds |-> NoSub]

ScoreNext ==
  \/ \E s \in SubIds, kind \in SubmissionKinds, passed \in BOOLEAN, pp \in 1 .. MaxPP,
         checksum \in Checksums :
       SubmitParse(s, kind, passed, pp, checksum, FALSE)
  \/ \E s \in SubIds : SubmitCheckDuplicate(s)
  \/ \E s \in SubIds : SubmitDemote(s)
  \/ \E s \in SubIds : SubmitInsert(s)
  \/ \E s \in SubIds : SubmitStats(s)
  \/ \E s \in SubIds : SubmitReply(s)

\* The submissions of plays that parse, with those that rank #1.
AnnounceNext ==
  \/ \E s \in SubIds, passed \in BOOLEAN, pp \in 1 .. MaxPP, checksum \in Checksums,
         first \in BOOLEAN :
       SubmitParse(s, "ok", passed, pp, checksum, first)
  \/ \E s \in SubIds : SubmitCheckDuplicate(s)
  \/ \E s \in SubIds : SubmitDemote(s)
  \/ \E s \in SubIds : SubmitInsert(s)
  \/ \E s \in SubIds : SubmitStats(s)
  \/ \E s \in SubIds : SubmitReply(s)

(***************************************************************************)
(* Friends and blocks: the !block and !unblock commands, the FriendAdd and *)
(* FriendRemove packets.  Player.blocks, add_block and remove_block are    *)
(* not among the sources: a block is an id of the session's blocked set.   *)
(***************************************************************************)
\* sessions besides the bot that send the commands and the packets
NFriendUsers == 3

FriendUsers == 2 .. (NFriendUsers + 1)
FriendTargets == {BotId} \cup FriendUsers

\* Player.friends_from_sql: self.friends = _friends | {1, self.id}
friends_from_sql(p) == {BotId, p}

\* Player.add_friend(p): `if p.id in self.friends: return`, self.friends.add
add_friend(fs, t) == fs \cup {t}

\* Player.remove_friend(p)
remove_friend(fs, t) == fs \ {t}

\* Player.add_block(p)
add_block(bs, t) == bs \cup {t}

\* Player.remove_block(p)
remove_block(bs, t) == bs \ {t}

\* !block <name>: the bot and the sender are refused, as is a user already
\* blocked; a friend is removed from the friends, then the block is added.
block(p, t) ==
  /\ IF t = BotId \/ t = p \/ t \in blocks[p]
     THEN UNCHANGED <<friends, blocks>>
     ELSE /\ friends' = [friends EXCEPT ![p] = remove_friend(@, t)]
          /\ blocks' = [blocks EXCEPT ![p] = add_block(@, t)]
  /\ UNCHANGED notFriendVars

\* !unblock <name>
unblock(p, t) ==
  /\ IF t = BotId \/ t = p \/ t \notin blocks[p]
     THEN UNCHANGED blocks
     ELSE blocks' = [blocks EXCEPT ![p] = remove_block(@, t)]
  /\ UNCHANGED friends
  /\ UNCHANGED notFriendVars

\* FriendAdd.handle: the target is online, and neither the bot nor the sender.
FriendAdd(p, t) ==
  /\ IF t = BotId \/ t = p
     THEN UNCHANGED friends
     ELSE friends' = [friends EXCEPT ![p] = add_friend(@, t)]
  /\ UNCHANGED blocks
  /\ UNCHANGED notFriendVars

\* FriendRemove.handle
FriendRemove(p, t) ==
  /\ IF t = BotId \/ t = p
     THEN UNCHANGED friends
     ELSE friends' = [friends EXCEPT ![p] = remove_friend(@, t)]
  /\ UNCHANGED blocks
  /\ UNCHANGED notFriendVars

FriendInit ==
  /\ friends = [p \in FriendUsers |-> friends_from_sql(p)]
  /\ blocks = [p \in FriendUsers |-> {}]

FriendNext ==
  \/ \E p \in FriendUsers, t \in FriendTargets : block(p, t)
  \/ \E p \in FriendUsers, t \in FriendTargets : unblock(p, t)
  \/ \E p \in FriendUsers, t \in FriendTargets : FriendAdd(p, t)
  \/ \E p \in FriendUsers, t \in FriendTargets : FriendRemove(p, t)

(***************************************************************************)
(* The password cache: glob.cache['bcrypt'], written by login() and by     *)
(* the registration of an account.                                         *)
(***************************************************************************)
\* the md5 digests of passwords, and the salts of bcrypt.gensalt()
NMd5s == 2
NSalts == 2

Md5s == 1 .. NMd5s
Salts == 1 .. NSalts
NoMd5 == 0

\* bcrypt.hashpw(pw_md5, salt): the hash carries its salt.
bcrypt_hashpw(pw_md5, salt) == [salt |-> salt, digest |-> pw_md5 * (NSalts + 1) + salt]

\* bcrypt.checkpw(pw_md5, pw_bcrypt): hashes with the salt of pw_bcrypt and compares
bcrypt_checkpw(pw_md5, pw_bcrypt) == bcrypt_hashpw(pw_md5, pw_bcrypt.salt) = pw_bcrypt

Hashes == {bcrypt_hashpw(m, sl) : m \in Md5s, sl \in Salts}

\* users.pw_bcrypt of the rows of the users table
Db_pw_bcrypt(id) == IF id = BotId THEN bcrypt_hashpw(1, 1) ELSE bcrypt_hashpw(2, 1)

NoCheck == [hash |-> bcrypt_hashpw(1, 1), md5 |-> NoMd5, ok |-> FALSE]

\* The cache written before the hash is verified.
check_credentials_unverified(cache, pw_bcrypt, pw_md5) ==
  IF cache[pw_bcrypt] # NoMd5
  THEN [ok |-> pw_md5 = cache[pw_bcrypt], cache |-> cache]
  ELSE [ok |-> bcrypt_checkpw(pw_md5, pw_bcrypt),
        cache |-> [cache EXCEPT ![pw_bcrypt] = pw_md5]]

\* login(): `if pw_bcrypt in bcrypt_cache:` compare with the cached md5, else
\* bcrypt.checkpw, and on success bcrypt_cache[pw_bcrypt] = pw_md5
check_credentials(cache, pw_bcrypt, pw_md5) ==
  IF cache[pw_bcrypt] # NoMd5
  THEN [ok |-> pw_md5 = cache[pw_bcrypt], cache |-> cache]
  ELSE IF ~bcrypt_checkpw(pw_md5, pw_bcrypt)
  THEN [ok |-> FALSE, cache |-> cache]
  ELSE [ok |-> TRUE, cache |-> [cache EXCEPT ![pw_bcrypt] = pw_md5]]

\* The users query and the checks of the credentials pw_md5 of the request
\* and of the privileges.
LoginQueryCached(l, pw_md5, banned) ==
  /\ logins[l].pc = "query"
  /\ LET rows == Db_fetch(logins[l].username)
         row == CHOOSE u \in rows : TRUE
         c == check_credentials(bcrypt_cache, Db_pw_bcrypt(row.id), pw_md5)
         refuse(r) == /\ logins' = [logins EXCEPT ![l] =
                                       [Reply(r) EXCEPT !.logged_out = logins[l].logged_out]]
                      /\ lock' = None
     IN
     IF rows = {}
     THEN refuse("userID(-1)") /\ UNCHANGED cacheVars
     ELSE /\ bcrypt_cache' = c.cache
          /\ last_check' = [hash |-> Db_pw_bcrypt(row.id), md5 |-> pw_md5, ok |-> c.ok]
          /\ IF ~c.ok THEN refuse("userID(-1)")
             ELSE IF banned THEN refuse("userID(-3)")
             ELSE /\ logins' = [logins EXCEPT ![l].pc = "register"]
                  /\ UNCHANGED lock
  /\ UNCHANGED <<now, online, last_recv, objects>>
  /\ UNCHANGED notCacheVars

\* register_account with check = 0: under glob.players._lock the password
\* is hashed with a fresh salt and the result cached; the row inserted is
\* of a name that no login request of the model carries.
register_account(pw_md5, salt) ==
  /\ Lock_free
  /\ bcrypt_cache' = [bcrypt_cache EXCEPT ![bcrypt_hashpw(pw_md5, salt)] = pw_md5]
  /\ UNCHANGED last_check
  /\ UNCHANGED loginVars
  /\ UNCHANGED notCacheVars

CacheInit ==
  /\ bcrypt_cache = [h \in Hashes |-> NoMd5]
  /\ last_check = NoCheck

CacheNext ==
  \/ \E l \in LoginIds, username \in WireNames : LoginArrive(l, username)
  \/ \E l \in LoginIds, kind \in {"current", "outdated", "malformed"} : LoginCheck(l, kind)
  \/ \E l \in LoginIds, pw_md5 \in Md5s, banned \in BOOLEAN : LoginQueryCached(l, pw_md5, banned)
  \/ \E l \in LoginIds : LoginRegister(l)
  \/ \E l \in LoginIds : LoginReply(l)
  \/ \E token \in 0 .. MaxObjects, with_logout \in BOOLEAN : TokenRequest(token, with_logout)
  \/ \E pw_md5 \in Md5s, salt \in Salts : register_account(pw_md5, salt)

(***************************************************************************)
(* Channels and spectators: Player.join_channel, leave_channel,            *)
(* add_spectator, remove_spectator and logout (objects/player.py), and the *)
(* packets of domains/cho.py that call them, one request after the other. *)
(***************************************************************************)
\* sessions that join channels and spectate
NCSessions == 2

CSessions == 1 .. NCSessions

\* The channels: the static channel #osu, and the spectator channel
\* #spec_<id> of every session, named by the id.
Osu == 0
Chans == {Osu} \cup CSessions
spec_chan(h) == h

\* The target #spectator of a message.
SpectatorAlias == NCSessions + 1

\* glob.channels[name]: a static channel is always there; an instance channel
\* is there from the join of its first member until it is empty.
Chan_exists(mem, c) == c = Osu \/ mem[c] # {}

\* The sessions, channels and spectators as the handlers find them.  ok is
\* what join_channel returned; raised and hung tell that the handler raised
\* or does not return.
World ==
  [players |-> cplayers, members |-> cmembers, channels |-> pchannels,
   spectating |-> spectating, spectators |-> spectators,
   ok |-> TRUE, raised |-> FALSE, hung |-> FALSE]

\* list.remove(x): the list without the first x
RECURSIVE List_remove(_, _)
List_remove(s, x) ==
  IF s = <<>> THEN <<>>
  ELSE IF Head(s) = x THEN Tail(s)
  ELSE <<Head(s)>> \o List_remove(Tail(s), x)

\* Player.join_channel(c): every session has the read privilege of every
\* channel of the model.
join_channel(w, p, c) ==
  IF p \in w.members[c] THEN [w EXCEPT !.ok = FALSE]
  ELSE [w EXCEPT !.members[c] = @ \cup {p}, !.channels[p] = Append(@, c), !.ok = TRUE]

\* The list of a session's channels left as it was.
Channels_remove_kept(chs, c) == chs

\* `self.channels.remove(c)` of Player.leave_channel
Channels_remove(chs, c) == List_remove(chs, c)

\* Player.leave_channel(c)
leave_channel(w, p, c) ==
  IF p \notin w.members[c] THEN w
  ELSE [w EXCEPT !.members[c] = @ \ {p}, !.channels[p] = Channels_remove(@, c)]

\* Player.add_spectator(p), of the host h
add_spectator(w, h, p) ==
  LET c == spec_chan(h)
      w1 == IF ~Chan_exists(w.members, c) THEN join_channel(w, h, c) ELSE w
      j == join_channel(w1, p, c)
  IN
  IF ~j.ok THEN j
  ELSE [j EXCEPT !.spectators[h] = @ \cup {p}, !.spectating[p] = h]

\* Player.remove_spectator(p), of the host h: list.remove raises for a
\* session that is no spectator, and `self not in c` raises for the channel
\* None.
remove_spectator(w, h, p) ==
  LET c == spec_chan(h)
      w1 == [w EXCEPT !.spectators[h] = @ \ {p}, !.spectating[p] = None]
      w2 == leave_channel(w1, p, c)
  IN
  IF p \notin w.spectators[h] THEN [w EXCEPT !.raised = TRUE]
  ELSE IF ~Chan_exists(w1.members, c) THEN [w1 EXCEPT !.raised = TRUE]
  ELSE IF w2.spectators[h] = {} THEN leave_channel(w2, h, c)
  ELSE w2

\* `while self.channels: self.leave_channel(self.channels[0])`: the loop does
\* not end when leave_channel returns without removing the channel.
RECURSIVE leave_channels(_, _)
leave_channels(w, p) ==
  IF w.channels[p] = <<>> THEN w
  ELSE LET c == Head(w.channels[p]) IN
       IF p \notin w.members[c] THEN [w EXCEPT !.hung = TRUE]
       ELSE leave_channels(leave_channel(w, p, c), p)

\* Player.logout(), without the match: glob.players.remove raises for a
\* session that is not in the registry.
Player_logout(w, p) ==
  LET w1 == IF w.spectating[p] # None THEN remove_spectator(w, w.spectating[p], p) ELSE w
      w2 == leave_channels(w1, p)
  IN
  IF w1.raised THEN w1
  ELSE IF w2.hung THEN w2
  ELSE IF p \notin w2.players THEN [w2 EXCEPT !.raised = TRUE]
  ELSE [w2 EXCEPT !.players = @ \ {p}]

\* The packets of a request, and the requests of the model: one packet, or
\* a Logout packet and one packet after it.
CPackets ==
  {[type |-> "Logout", arg |-> 0], [type |-> "StopSpectating", arg |-> 0]}
    \cup [type : {"ChannelJoin", "ChannelPart"}, arg : Chans]
    \cup [type : {"StartSpectating"}, arg : CSessions]
    \cup [type : {"SendMessage"}, arg : Chans \cup {SpectatorAlias}]
CBodies ==
  {<<k>> : k \in CPackets} \cup {<<[type |-> "Logout", arg |-> 0], k>> : k \in CPackets}

NoBatch == [pc |-> "idle", player |-> None, body |-> <<>>]
NoMessage == [op |-> "none", p |-> None, chan |-> None, to |-> {}, left |-> 0]

\* The handler leaves the world w: a handler that raised ends the request,
\* one that does not return keeps it for ever.
Commit(w, obs) ==
  /\ cplayers' = w.players
  /\ cmembers' = w.members
  /\ pchannels' = w.channels
  /\ spectating' = w.spectating
  /\ spectators' = w.spectators
  /\ creq' = IF w.hung THEN [creq EXCEPT !.pc = "hung"]
             ELSE IF w.raised THEN NoBatch
             ELSE [creq EXCEPT !.body = Tail(@)]
  /\ clast' = obs
  /\ UNCHANGED notChanVars

\* The next packet of the request is of the type given.
Handling(type) ==
  /\ creq.pc = "handling"
  /\ creq.body # <<>>
  /\ Head(creq.body).type = type

\* login(), for the channels: a new session joins the channels with
\* auto_join and is appended to glob.players.  A login makes a new Player
\* object: an identity is used again once nothing refers to the old one.
ChanLogin(p) ==
  /\ creq.pc = "idle"
  /\ p \notin cplayers
  /\ pchannels[p] = <<>> /\ spectators[p] = {} /\ spectating[p] = None
  /\ \A q \in CSessions : spectating[q] # p
  /\ \A c \in Chans : p \notin cmembers[c]
  /\ LET w == join_channel(World, p, Osu) IN
     /\ cplayers' = w.players \cup {p}
     /\ cmembers' = w.members
     /\ pchannels' = w.channels
  /\ clast' = NoMessage
  /\ UNCHANGED <<spectating, spectators, creq>>
  /\ UNCHANGED notChanVars

\* bancho_handler: glob.players.get(token=...) finds the session, and the
\* packets of the body are handled one after the other.
BatchStart(p, body) ==
  /\ creq.pc = "idle"
  /\ p \in cplayers
  /\ creq' = [pc |-> "handling", player |-> p, body |-> body]
  /\ clast' = NoMessage
  /\ UNCHANGED <<cplayers, cmembers, pchannels, spectating, spectators>>
  /\ UNCHANGED notChanVars

\* bancho_handler returns.
BatchEnd ==
  /\ creq.pc = "handling"
  /\ creq.body = <<>>
  /\ creq' = NoBatch
  /\ clast' = NoMessage
  /\ UNCHANGED <<cplayers, cmembers, pchannels, spectating, spectators>>
  /\ UNCHANGED notChanVars

\* Logout.handle: a logout within a second of the login is ignored.
LogoutPacket ==
  /\ Handling("Logout")
  /\ \E early \in BOOLEAN :
       IF early THEN Commit(World, NoMessage)
       ELSE Commit(Player_logout(World, creq.player),
                   [NoMessage EXCEPT !.op = "Logout", !.p = creq.player,
                                     !.left = Len(pchannels[creq.player])])

\* ChannelJoin.handle
ChannelJoin ==
  /\ Handling("ChannelJoin")
  /\ LET c == Head(creq.body).arg IN
     IF ~Chan_exists(cmembers, c) THEN Commit(World, NoMessage)
     ELSE Commit(join_channel(World, creq.player, c), NoMessage)

\* ChannelPart.handle
ChannelPart ==
  /\ Handling("ChannelPart")
  /\ LET c == Head(creq.body).arg IN
     IF ~Chan_exists(cmembers, c) \/ creq.player \notin cmembers[c]
     THEN Commit(World, NoMessage)
     ELSE Commit(leave_channel(World, creq.player, c), NoMessage)

\* StartSpectating.handle
StartSpectating ==
  /\ Handling("StartSpectating")
  /\ LET p == creq.player
         h == Head(creq.body).arg
         w1 == IF spectating[p] # None THEN remove_spectator(World, spectating[p], p)
               ELSE World
     IN
     IF h \notin cplayers THEN Commit(World, NoMessage)
     ELSE IF w1.raised THEN Commit(w1, NoMessage)
     ELSE Commit(add_spectator(w1, h, p), NoMessage)

\* StopSpectating.handle
StopSpectating ==
  /\ Handling("StopSpectating")
  /\ LET p == creq.player IN
     IF spectating[p] = None THEN Commit(World, NoMessage)
     ELSE Commit(remove_spectator(World, spectating[p], p), NoMessage)

\* Channel.send(p, msg): the message goes to every member but the sender.
Channel_send(mem, c, p) == mem[c] \ {p}

\* SendMessage.handle, of a message that is no command: #spectator is the
\* channel of the host that the sender spectates, or the sender's own; any
\* other target is looked up in glob.channels.
SendMessage ==
  /\ Handling("SendMessage")
  /\ LET p == creq.player
         target == Head(creq.body).arg
         t_chan == IF target = SpectatorAlias
                   THEN (IF spectating[p] # None THEN spec_chan(spectating[p])
                         ELSE IF spectators[p] # {} THEN spec_chan(p)
                         ELSE None)
                   ELSE target
     IN
     IF t_chan = None \/ ~Chan_exists(cmembers, t_chan) THEN Commit(World, NoMessage)
     ELSE Commit(World, [NoMessage EXCEPT !.op = "SendMessage", !.p = p, !.chan = t_chan,
                                          !.to = Channel_send(cmembers, t_chan, p)])

ChanInit ==
  /\ cplayers = {}
  /\ cmembers = [c \in Chans |-> {}]
  /\ pchannels = [p \in CSessions |-> <<>>]
  /\ spectating = [p \in CSessions |-> None]
  /\ spectators = [p \in CSessions |-> {}]
  /\ creq = NoBatch
  /\ clast = NoMessage

ChanNext ==
  \/ \E p \in CSessions : ChanLogin(p)
  \/ \E p \in CSessions, body \in CBodies : BatchStart(p, body)
  \/ BatchEnd
  \/ LogoutPacket
  \/ ChannelJoin
  \/ ChannelPart
  \/ StartSpectating
  \/ StopSpectating
  \/ SendMessage

(***************************************************************************)
(* The wire codec: packets.py.  Bytes are the integers 0 .. 255, a buffer  *)
(* is a sequence of them, and a str is the sequence of its code points.    *)
(***************************************************************************)
\* view[n:] and view[:n] of a memoryview
Drop(view, n) == SubSeq(view, n + 1, Len(view))
Take(view, n) == SubSeq(view, 1, IF n < Len(view) THEN n ELSE Len(view))

\* int.to_bytes(size, 'little'), also signed: byte i of the two's complement
RECURSIVE to_bytes(_, _)
to_bytes(n, size) ==
  IF size = 0 THEN <<>> ELSE <<n % 256>> \o to_bytes(n \div 256, size - 1)

\* int.from_bytes(b, 'little', signed=signed), of the bytes that are there
RECURSIVE from_bytes(_, _)
from_bytes(b, signed) ==
  IF b = <<>> THEN 0
  ELSE IF Len(b) = 1 THEN (IF signed /\ b[1] >= 128 THEN b[1] - 256 ELSE b[1])
  ELSE b[1] + 256 * from_bytes(Tail(b), signed)

\* What a read returns: the value and the view left; ok is FALSE when the
\* read raised.
Read(val, rest) == [ok |-> TRUE, val |-> val, rest |-> rest]
ReadRaised == [ok |-> FALSE, val |-> <<>>, rest |-> <<>>]

\* BanchoPacketReader._read_integral(size, signed)
read_integral(view, size, signed) ==
  Read(from_bytes(Take(view, size), signed), Drop(view, size))

\* str.encode(): UTF-8, of code points below 0x800
RECURSIVE str_encode(_)
str_encode(s) ==
  IF s = <<>> THEN <<>>
  ELSE (IF Head(s) < 128 THEN <<Head(s)>>
        ELSE <<192 + (Head(s) \div 64), 128 + (Head(s) % 64)>>) \o str_encode(Tail(s))

\* bytes.decode() raises on bytes that are not UTF-8
RECURSIVE decodable(_)
decodable(b) ==
  IF b = <<>> THEN TRUE
  ELSE IF b[1] < 128 THEN decodable(Tail(b))
  ELSE /\ b[1] >= 194 /\ b[1] < 224
       /\ Len(b) >= 2 /\ b[2] >= 128 /\ b[2] < 192
       /\ decodable(Drop(b, 2))

\* bytes.decode(), of bytes that are UTF-8
RECURSIVE bytes_decode(_)
bytes_decode(b) ==
  IF b = <<>> THEN <<>>
  ELSE IF b[1] < 128 THEN <<b[1]>> \o bytes_decode(Tail(b))
  ELSE <<(b[1] - 192) * 64 + (b[2] - 128)>> \o bytes_decode(Drop(b, 2))

\* write_uleb128 with the groups above the lowest left out
write_uleb128_low(num) == <<num % 128>>

\* write_uleb128(num)
RECURSIVE write_uleb128(_)
write_uleb128(num) ==
  IF num < 128 THEN <<num>>
  ELSE <<128 + (num % 128)>> \o write_uleb128(num \div 128)

\* The loop of read_string that reads the length: length |= (b & 0x7f) <<
\* shift, with place = 2^shift; view[0] raises on an empty view.
RECURSIVE read_uleb128(_, _, _)
read_uleb128(view, length, place) ==
  IF view = <<>> THEN ReadRaised
  ELSE LET b == Head(view)
           l == length + (b % 128) * place
       IN IF b < 128 THEN Read(l, Tail(view))
          ELSE read_uleb128(Tail(view), l, place * 128)

\* write_string(s)
write_string(s) ==
  IF s # <<>>
  THEN <<11>> \o write_uleb128(Len(str_encode(s))) \o str_encode(s)
  ELSE <<0>>

\* BanchoPacketReader.read_string()
read_string(view) ==
  IF view = <<>> THEN ReadRaised
  ELSE IF Head(view) # 11 THEN Read(<<>>, Tail(view))
  ELSE LET l == read_uleb128(Tail(view), 0, 1) IN
       IF ~l.ok THEN ReadRaised
       ELSE IF ~decodable(Take(l.rest, l.val)) THEN ReadRaised
       ELSE Read(bytes_decode(Take(l.rest, l.val)), Drop(l.rest, l.val))

\* write_message(sender, msg, recipient, sender_id)
write_message(sender, msg, recipient, sender_id) ==
  write_string(sender) \o write_string(msg) \o write_string(recipient)
    \o to_bytes(sender_id, 4)

\* BanchoPacketReader.read_message()
read_message(view) ==
  LET sender == read_string(view) IN
  IF ~sender.ok THEN ReadRaised ELSE
  LET msg == read_string(sender.rest) IN
  IF ~msg.ok THEN ReadRaised ELSE
  LET recipient == read_string(msg.rest) IN
  IF ~recipient.ok THEN ReadRaised ELSE
  LET sender_id == read_integral(recipient.rest, 4, TRUE) IN
  Read([sender |-> sender.val, msg |-> msg.val, recipient |-> recipient.val,
        sender_id |-> sender_id.val], sender_id.rest)

\* write_channel(name, topic, count)
write_channel(name, topic, count) ==
  write_string(name) \o write_string(topic) \o to_bytes(count, 2)

\* BanchoPacketReader.read_channel()
read_channel(view) ==
  LET name == read_string(view) IN
  IF ~name.ok THEN ReadRaised ELSE
  LET topic == read_string(name.rest) IN
  IF ~topic.ok THEN ReadRaised ELSE
  LET count == read_integral(topic.rest, 4, TRUE) IN
  Read([name |-> name.val, topic |-> topic.val, players |-> count.val], count.rest)

\* The values on the wire of SlotStatus, MatchTeams, MatchTeamTypes and of
\* the bits of Mods (objects.match and constants.mods, not among the sources).
SlotStatus_value ==
  ("open" :> 1) @@ ("locked" :> 2) @@ ("not_ready" :> 4) @@ ("ready" :> 8) @@
  ("no_map" :> 16) @@ ("playing" :> 32) @@ ("complete" :> 64) @@ ("quit" :> 128)
MatchTeams_value == ("neutral" :> 0) @@ ("blue" :> 1) @@ ("red" :> 2)
MatchTeamTypes_value ==
  ("head_to_head" :> 0) @@ ("tag_coop" :> 1) @@ ("team_vs" :> 2) @@ ("tag_team_vs" :> 3)
Mods_bit == ("HD" :> 8) @@ ("DT" :> 64)
GameModes == 0 .. 3
MatchWinConditions == 0 .. 3

\* Enum(value): the member of the value, where there is one
IsValue(enum, b) == \E k \in DOMAIN enum : enum[k] = b
Member(enum, b) == CHOOSE k \in DOMAIN enum : enum[k] = b

\* int(mods) and Mods(int)
RECURSIVE Mods_value(_)
Mods_value(mods) ==
  IF mods = {} THEN 0
  ELSE LET bit == CHOOSE b \in mods : TRUE IN Mods_bit[bit] + Mods_value(mods \ {bit})
Mods_of(n) == {bit \in DOMAIN Mods_bit : (n \div Mods_bit[bit]) % 2 = 1}

\* The concatenation of g[i], g[i + 1], ..., over the slots in slot order.
RECURSIVE Slots_concat(_, _)
Slots_concat(g, i) ==
  IF i \notin SlotIds THEN <<>> ELSE g[i] \o Slots_concat(g, i + 1)

\* write_match(m, send_pw), where it does not raise
write_match(m, send_pw) ==
  LET passwd == IF m.passwd # <<>>
                THEN (IF send_pw THEN write_string(m.passwd) ELSE <<11, 0>>)
                ELSE <<0>>
  IN
  to_bytes(m.id, 2) \o <<IF m.in_progress THEN 1 ELSE 0, 0>>
    \o to_bytes(Mods_value(m.mods), 4)
    \o write_string(m.name) \o passwd
    \o write_string(m.map_name) \o to_bytes(m.map_id, 4) \o write_string(m.map_md5)
    \o Slots_concat([i \in SlotIds |-> <<SlotStatus_value[m.slots[i].status]>>], 0)
    \o Slots_concat([i \in SlotIds |-> <<MatchTeams_value[m.slots[i].team]>>], 0)
    \o Slots_concat([i \in SlotIds |->
         IF m.slots[i].status \in has_player THEN to_bytes(m.slots[i].player, 4)
         ELSE <<>>], 0)
    \o to_bytes(m.host, 4)
    \o <<m.mode, m.win_condition, MatchTeamTypes_value[m.team_type],
         IF m.freemods THEN 1 ELSE 0>>
    \o (IF m.freemods
        THEN Slots_concat([i \in SlotIds |-> to_bytes(Mods_value(m.slots[i].mods), 4)], 0)
        ELSE <<>>)
    \o to_bytes(m.seed, 4)

\* Match() as read_match makes it, before it assigns what it reads: no id,
\* not in progress, slots without a player.
DefaultMatchId == 0

\* read_i8() of byte i of the view: 0 where the view has ended
I8(view, i) == read_integral(Drop(view, i - 1), 1, TRUE).val

\* BanchoPacketReader.read_match(): the id and the in-progress byte are
\* passed over, the ids of the players in the slots are passed over, and the
\* host is looked up in glob.players.
read_match(view) ==
  LET mods == read_integral(Drop(view, 4), 4, TRUE)
      name == read_string(mods.rest)
  IN
  IF ~name.ok THEN ReadRaised ELSE
  LET passwd == read_string(name.rest) IN
  IF ~passwd.ok THEN ReadRaised ELSE
  LET map_name == read_string(passwd.rest) IN
  IF ~map_name.ok THEN ReadRaised ELSE
  LET map_id == read_integral(map_name.rest, 4, TRUE)
      map_md5 == read_string(map_id.rest)
  IN
  IF ~map_md5.ok THEN ReadRaised ELSE
  LET v1 == map_md5.rest
      v2 == Drop(v1, NSlots)
      v3 == Drop(v2, NSlots)
  IN
  IF \/ \E i \in SlotIds : ~IsValue(SlotStatus_value, I8(v1, i + 1))
     \/ \E i \in SlotIds : ~IsValue(MatchTeams_value, I8(v2, i + 1))
  THEN ReadRaised ELSE
  LET status == [i \in SlotIds |-> Member(SlotStatus_value, I8(v1, i + 1))]
      team == [i \in SlotIds |-> Member(MatchTeams_value, I8(v2, i + 1))]
      v4 == Drop(v3, 4 * Cardinality({i \in SlotIds : status[i] \in has_player}))
      host_id == read_integral(v4, 4, TRUE)
      v5 == host_id.rest
  IN
  IF \/ I8(v5, 1) \notin GameModes
     \/ I8(v5, 2) \notin MatchWinConditions
     \/ ~IsValue(MatchTeamTypes_value, I8(v5, 3))
  THEN ReadRaised ELSE
  LET freemods == I8(v5, 4) = 1
      v6 == Drop(v5, 4)
      v7 == IF freemods THEN Drop(v6, 4 * NSlots) ELSE v6
      seed == read_integral(v7, 4, TRUE)
  IN
  Read([id |-> DefaultMatchId, in_progress |-> FALSE,
        mods |-> Mods_of(mods.val), name |-> name.val, passwd |-> passwd.val,
        map_name |-> map_name.val, map_id |-> map_id.val, map_md5 |-> map_md5.val,
        slots |-> [i \in SlotIds |->
          [status |-> status[i], team |-> team[i], player |-> None,
           mods |-> IF freemods
                    THEN Mods_of(read_integral(Drop(v6, 4 * i), 4, TRUE).val)
                    ELSE NOMOD]],
        host |-> Players_get(host_id.val),
        mode |-> I8(v5, 1), win_condition |-> I8(v5, 2),
        team_type |-> Member(MatchTeamTypes_value, I8(v5, 3)),
        freemods |-> freemods, seed |-> seed.val],
       seed.rest)

\* The values written and read back: strings of at most MaxStr code points,
\* one of them of two bytes; lengths at the ends of the ULEB128 groups, up
\* to 2^28 - 1; messages, channels and matches of these; and the bytes that
\* follow the value in the buffer.
MaxStr == 2
CodePoints == {97, 233}
Strs == UNION {[1 .. n -> CodePoints] : n \in 0 .. MaxStr}
Lengths == {0, 1, 127, 128, 16383, 16384, 2097151, 2097152, 268435455}
Tails == {<<>>, <<11>>, <<1, 0>>}
Messages ==
  [sender : {<<>>, <<97>>}, msg : Strs, recipient : {<<97>>}, sender_id : {-1, 3, 70000}]
Channels ==
  [name : {<<97>>, <<233>>}, topic : {<<>>, <<97>>}, players : {0, 1, 258, 65535}]
WireSlots ==
  {[i \in SlotIds |-> EmptySlot],
   [i \in SlotIds |-> IF i = 0
                      THEN [status |-> "not_ready", player |-> BotId, mods |-> {"HD"},
                            team |-> "neutral"]
                      ELSE EmptySlot]}
WireMatches ==
  [id : {DefaultMatchId, 1}, in_progress : BOOLEAN, mods : {NOMOD, {"DT"}},
   name : {<<97>>}, passwd : {<<>>, <<97>>},
   map_name : {<<97>>}, map_id : {1}, map_md5 : {<<97>>},
   slots : WireSlots, host : {BotId, 3},
   mode : {0}, win_condition : {0}, team_type : {"head_to_head"},
   freemods : BOOLEAN, seed : {0}]

CodecKinds == {"string", "uleb128", "message", "channel", "match"}
CodecValues(kind) ==
  CASE kind = "string" -> Strs
    [] kind = "uleb128" -> Lengths
    [] kind = "message" -> Messages
    [] kind = "channel" -> Channels
    [] kind = "match" -> WireMatches

\* The writer and the reader of a kind of value.
codec_write(kind, value, send_pw) ==
  CASE kind = "string" -> write_string(value)
    [] kind = "uleb128" -> write_uleb128(value)
    [] kind = "message" ->
         write_message(value.sender, value.msg, value.recipient, value.sender_id)
    [] kind = "channel" -> write_channel(value.name, value.topic, value.players)
    [] kind = "match" -> write_match(value, send_pw)

codec_read(kind, view) ==
  CASE kind = "string" -> read_string(view)
    [] kind = "uleb128" -> read_uleb128(view, 0, 1)
    [] kind = "message" -> read_message(view)
    [] kind = "channel" -> read_channel(view)
    [] kind = "match" -> read_match(view)

NoCodec == [pc |-> "idle", kind |-> "none", value |-> <<>>, tail |-> <<>>,
            send_pw |-> TRUE, bytes |-> <<>>, result |-> ReadRaised,
            again |-> [ok |-> TRUE, bytes |-> <<>>]]

\* The value is written into a buffer, before the bytes of its tail.
CodecWrite ==
  /\ codec.pc = "input"
  /\ codec' = [codec EXCEPT !.pc = "written",
                            !.bytes = codec_write(codec.kind, codec.value, codec.send_pw)
                                        \o codec.tail]
  /\ UNCHANGED reader
  /\ UNCHANGED notCodecVars

\* A reader reads a value of the kind from the buffer.
CodecRead ==
  /\ codec.pc = "written"
  /\ codec' = [codec EXCEPT !.pc = "read", !.result = codec_read(codec.kind, codec.bytes)]
  /\ UNCHANGED reader
  /\ UNCHANGED notCodecVars

\* The match read is written again, for the same observer.
CodecRewrite ==
  /\ codec.pc = "read"
  /\ codec.kind = "match"
  /\ codec.result.ok
  /\ codec' = [codec EXCEPT !.pc = "rewritten",
       !.again = IF write_match_raises(codec.result.val)
                 THEN [ok |-> FALSE, bytes |-> <<>>]
                 ELSE [ok |-> TRUE,
                       bytes |-> write_match(codec.result.val, codec.send_pw)
                                   \o codec.result.rest]]
  /\ UNCHANGED reader
  /\ UNCHANGED notCodecVars

CodecNext == CodecWrite \/ CodecRead \/ CodecRewrite

(***************************************************************************)
(* The packet reader: BanchoPacketReader over the body of a request.       *)
(***************************************************************************)

MaxPackets == 2

\* Members of the Packets enum (src/packets.py).
OSU_REQUEST_STATUS_UPDATE == 3
OSU_PING == 4
OSU_FRIEND_ADD == 73

\* Packet ids that the Packets enum does not define.
UndefinedIds == {6}

\* The values of the Packets enum: 0 to 109, without 6 and 35.
Packets_values == (0 .. 109) \ {6, 35}

\* glob.bancho_packets, as the reader uses it: the arguments of the handler
\* registered for an id. StatsUpdateRequest has none, FriendAdd has user_id;
\* no handler is registered for OSU_PING.
packet_map == (OSU_REQUEST_STATUS_UPDATE :> <<>>) @@ (OSU_FRIEND_ADD :> <<"i32">>)

\* The bytes a handler's arguments take.
RECURSIVE args_size(_)
args_size(args) ==
  IF args = <<>> THEN 0 ELSE 4 + args_size(Tail(args))

\* The ids, the declared lengths and the payload bytes of the model's packets.
ReaderIds == {OSU_REQUEST_STATUS_UPDATE, OSU_PING, OSU_FRIEND_ADD} \cup UndefinedIds
ReaderLengths == {0, 2, 4}
Payload == <<3, 0, 0, 0>>

\* A packet on the wire: struct '<HxI' of the id and the length, and the
\* payload of that length.
write_packet(pkt) ==
  to_bytes(pkt.id, 2) \o <<0>> \o to_bytes(pkt.length, 4) \o Take(Payload, pkt.length)

RECURSIVE write_packets(_)
write_packets(pkts) ==
  IF pkts = <<>> THEN <<>> ELSE write_packet(Head(pkts)) \o write_packets(Tail(pkts))

\* BanchoPacketReader.read_header(): StopIteration below 7 bytes; Packets(id)
\* raises ValueError for an id that is not a member of the enum.
read_header(view) ==
  IF Len(view) < 7 THEN [out |-> "stop", id |-> None, length |-> 0, view |-> view]
  ELSE LET id == from_bytes(Take(view, 2), FALSE)
           length == from_bytes(SubSeq(view, 4, 7), FALSE)
       IN [out |-> IF id \in Packets_values THEN "header" ELSE "raise",
           id |-> id, length |-> length, view |-> Drop(view, 7)]

\* The loop of BanchoPacketReader.__next__(): headers are read until one has
\* a handler; the payload of the others is cut off the view.
RECURSIVE next_header(_)
next_header(view) ==
  LET h == read_header(view) IN
  IF h.out # "header" \/ h.id \in DOMAIN packet_map THEN h
  ELSE next_header(IF h.length # 0 THEN Drop(h.view, h.length) ELSE h.view)

\* BanchoPacketReader.read_arguments(): every argument is read from the view,
\* whatever the length of the packet.
RECURSIVE read_arguments(_, _)
read_arguments(view, args) ==
  IF args = <<>> THEN Read(<<>>, view)
  ELSE LET r == read_integral(view, 4, TRUE)
           s == read_arguments(r.rest, Tail(args))
       IN Read(<<r.val>> \o s.val, s.rest)

NoReader == [pc |-> "idle", packets |-> <<>>, view |-> <<>>, handled |-> <<>>]

\* One turn of `for packet in BanchoPacketReader(conn.body)` that yields a
\* packet: __next__ returns it with its arguments read, and its handler runs.
ReaderHandle ==
  /\ reader.pc = "reading"
  /\ LET h == next_header(reader.view) IN
     /\ h.out = "header"
     /\ LET a == read_arguments(h.view, packet_map[h.id]) IN
        reader' = [reader EXCEPT
                     !.view = a.rest,
                     !.handled = @ \o <<[id |-> h.id, length |-> h.length,
                                         consumed |-> Len(h.view) - Len(a.rest),
                                         args |-> a.val]>>]
  /\ UNCHANGED codec
  /\ UNCHANGED notCodecVars

\* The turn in which read_header finds less than a header: the loop ends.
ReaderStop ==
  /\ reader.pc = "reading"
  /\ LET h == next_header(reader.view) IN
     /\ h.out = "stop"
     /\ reader' = [reader EXCEPT !.pc = "stopped", !.view = h.view]
  /\ UNCHANGED codec
  /\ UNCHANGED notCodecVars

\* The turn in which Packets(id) raises: the ValueError leaves the loop and
\* bancho_handler.
ReaderRaise ==
  /\ reader.pc = "reading"
  /\ LET h == next_header(reader.view) IN
     /\ h.out = "raise"
     /\ reader' = [reader EXCEPT !.pc = "raised", !.view = h.view]
  /\ UNCHANGED codec
  /\ UNCHANGED notCodecVars

ReaderNext == ReaderHandle \/ ReaderStop \/ ReaderRaise

\* Bodies of one to MaxPackets packets.
ReaderPackets ==
  UNION {[1 .. n -> [id : ReaderIds, length : ReaderLengths]] : n \in 1 .. MaxPackets}

ReaderInputs ==
  /\ codec = NoCodec
  /\ \E pkts \in ReaderPackets :
       reader = [NoReader EXCEPT !.pc = "reading", !.packets = pkts,
                                 !.view = write_packets(pkts)]


CodecInit ==
  /\ codec = NoCodec
  /\ reader = NoReader

\* A value of every kind, with every tail.
CodecInputs ==
  /\ reader = NoReader
  /\ \E kind \in CodecKinds, tail \in Tails, send_pw \in BOOLEAN :
       \E value \in CodecValues(kind) :
         /\ kind # "match" => send_pw
         /\ codec = [NoCodec EXCEPT !.pc = "input", !.kind = kind, !.value = value,
                                    !.tail = tail, !.send_pw = send_pw]

Init == MatchInit /\ LoginInit /\ QueueInit /\ ScoreInit /\ FriendInit /\ CacheInit /\ CodecInit
  /\ ChanInit

\* Spec: every match handler, over rooms without mods.
Next == MatchCommon({NOMOD}, {FALSE}, Passwds, {"head_to_head"}, {1}) \/ MatchPlay

Spec == Init /\ [][Next]_vars

\* SpecMods: the handlers that read or write mods, freemods, slots or the host.
ModsNext == MatchCommon(AllMods, BOOLEAN, {""}, {"head_to_head"}, {1})

SpecMods == Init /\ [][ModsNext]_vars

InitRecorded ==
  MatchInitRecorded /\ LoginInit /\ QueueInit /\ ScoreInit /\ FriendInit /\ CacheInit /\ CodecInit
  /\ ChanInit

\* SpecRoom: joining, leaving and the packets of the host, recorded.
SpecRoom == InitRecorded /\ [][RoomNext]_vars

\* SpecPlay: rounds, start timers and map changes, recorded.
SpecPlay == InitRecorded /\ [][PlayNext]_vars

\* SpecPool: the mappool of a match, its bans and picks, recorded.
SpecPool == InitRecorded /\ [][PoolNext]_vars

\* SpecTimer: start timers, their alerts and their cancellation, recorded.
SpecTimer == InitRecorded /\ [][TimerNext]_vars

\* SpecForce: joins, slot changes, locks and forced joins, recorded.
SpecForce == InitRecorded /\ [][ForceNext]_vars

\* SpecChan: channels, spectators and the requests that change them.
SpecChan == Init /\ [][ChanNext]_vars

\* SpecTeams: team types and teams.
SpecTeams == Init /\ [][TeamsNext]_vars

\* SpecLogin: login requests, sessions and the clock.
SpecLogin == Init /\ [][LoginNext]_vars

\* SpecQueue: gateway requests and the outbound queues.
SpecQueue == Init /\ [][QueueNext]_vars

\* SpecCodec: values written to a buffer and read back from it.
InitCodec ==
  /\ MatchInit /\ LoginInit /\ QueueInit /\ ScoreInit /\ FriendInit /\ CacheInit
  /\ ChanInit
  /\ CodecInputs

SpecCodec == InitCodec /\ [][CodecNext]_vars

\* SpecReader: bodies of packets read by the packet reader.
InitReader ==
  /\ MatchInit /\ LoginInit /\ QueueInit /\ ScoreInit /\ FriendInit /\ CacheInit
  /\ ChanInit
  /\ ReaderInputs

SpecReader == InitReader /\ [][ReaderNext]_vars

\* SpecDrain: requests with a token, logins and logouts of their sessions.
SpecDrain == Init /\ [][DrainNext]_vars

\* SpecScore: score submissions of one player on one map in one mode.
SpecScore == Init /\ [][ScoreNext]_vars

\* SpecAnnounce: the submissions of plays that may rank #1.
SpecAnnounce == Init /\ [][AnnounceNext]_vars

\* SpecFriends: the friends and the blocks of the sessions.
SpecFriends == Init /\ [][FriendNext]_vars

\* SpecCache: logins with their credentials, and registrations.
SpecCache == Init /\ [][CacheNext]_vars

(***************************************************************************)
(* Properties of the match handlers.                                       *)
(***************************************************************************)
Occupied(m) == \E i \in SlotIds : m.slots[i].player # None
HostHoldsSlot(m) == m.host # None /\ \E i \in SlotIds : m.slots[i].player = m.host
NonSpeed(mods) == mods \ SPEED_CHANGING_MODS
Speed(mods) == mods \cap SPEED_CHANGING_MODS

\* C1: when freemods is switched on for a match whose room mods are R, the room
\* mods afterwards are the speed-changing part of R and the mods of every
\* occupied slot are the non-speed part of R.
C1_FreemodsOnSplitsMods ==
  [][\A id \in MatchIds :
       (/\ matches[id] # NoMatch /\ matches'[id] # NoMatch
        /\ ~matches[id].freemods /\ matches'[id].freemods)
       => /\ matches'[id].mods = Speed(matches[id].mods)
          /\ \A i \in SlotIds :
               matches'[id].slots[i].player # None
                 => matches'[id].slots[i].mods = NonSpeed(matches[id].mods)]_vars

\* C2: in every registered match, while freemods is on the room mods hold no
\* non-speed-changing mod, and while freemods is off every slot's mods are empty.
C2_ModsDecomposition ==
  \A id \in registry :
    /\ matches[id].freemods => NonSpeed(matches[id].mods) = NOMOD
    /\ ~matches[id].freemods => \A i \in SlotIds : matches[id].slots[i].mods = NOMOD

\* C3: every registered match has at most one host, and its host holds one of
\* its slots exactly when at least one of its slots is occupied.
C3_HostHoldsSlotIffOccupied ==
  \A id \in registry : HostHoldsSlot(matches[id]) <=> Occupied(matches[id])

\* C7: the session in any occupied slot of a registered match is in the
\* session registry.
C7_SlotSessionsRegistered ==
  \A id \in registry : \A i \in SlotIds :
    matches[id].slots[i].player # None => matches[id].slots[i].player \in players

\* C10: while a match is in progress, every occupied slot of it is playing,
\* complete or failed.
C10_InProgressSlotsPlaying ==
  \A id \in registry :
    matches[id].in_progress =>
      \A i \in SlotIds :
        matches[id].slots[i].player # None
          => matches[id].slots[i].status \in {"playing", "complete", "failed"}

\* C11: in every registered match an occupied slot's team is red or blue
\* exactly when the team type is team-vs or tag-team-vs, and it is neutral
\* for every other team type.
C11_TeamFitsTeamType ==
  \A id \in registry : \A i \in SlotIds :
    matches[id].slots[i].player # None =>
      IF matches[id].team_type \in {"team_vs", "tag_team_vs"}
      THEN matches[id].slots[i].team \in {"red", "blue"}
      ELSE matches[id].slots[i].team = "neutral"

\* The packets that only the host of a match may send.
HostOnly ==
  {"MatchLock", "MatchChangeSettings", "MatchStart", "MatchTransferHost",
   "MatchChangePassword"}

\* The handlers that call Player.leave_match.
Leaves == {"MatchPart", "Logout", "Login"}

\* the lowest occupied slot of m
LowestOccupied(m) ==
  CHOOSE i \in SlotIds :
    m.slots[i].player # None /\ \A j \in SlotIds : m.slots[j].player # None => i <= j

\* C15: when the host leaves a match that still has other occupants, its
\* slot is reset, the host becomes the session of the lowest occupied slot,
\* matchTransferHost is enqueued to that session and the state of the match
\* to the remaining members.
C15_HostLeaves ==
  [][\A p \in Sessions : \A id \in registry :
       (/\ pmatch[p] = id
        /\ matches[id].host = p
        /\ \E i \in SlotIds : matches[id].slots[i].player \notin {None, p}
        /\ last'.op \in Leaves /\ last'.p = p)
       => /\ matches'[id] # NoMatch
          /\ \A i \in SlotIds : matches'[id].slots[i].player # p
          /\ \A i \in SlotIds :
               matches[id].slots[i].player = p => matches'[id].slots[i] = EmptySlot
          /\ matches'[id].host = matches'[id].slots[LowestOccupied(matches'[id])].player
          /\ <<matches'[id].host, "matchTransferHost">> \in sent'
          /\ \A q \in chat'[id] : <<q, "updateMatch">> \in sent']_vars

\* C16: a lock, change-settings, start, transfer-host or change-password
\* packet of a member of a match who is not its host changes nothing in the
\* match, enqueues nothing, and leaves the sender's session registered.
C16_NonHostDropped ==
  [][\A p \in Sessions :
       (/\ pmatch[p] # None
        /\ matches[pmatch[p]].host # p
        /\ last'.op \in HostOnly /\ last'.p = p)
       => /\ matches' = matches
          /\ registry' = registry /\ pmatch' = pmatch /\ chat' = chat
          /\ sent' = {}
          /\ players' = players /\ hastoken' = hastoken]_vars

\* A member that is not the host has sent a packet of the host.
C16_Witness ==
  /\ last.op \in HostOnly
  /\ last.p \in players
  /\ pmatch[last.p] \in registry
  /\ matches[pmatch[last.p]].host \notin {None, last.p}
  /\ \E i \in SlotIds : matches[pmatch[last.p]].slots[i].player = last.p
  /\ sent = {}

\* A join packet of p for the match id, with the password passwd, where p
\* of the staff is admitted as allowed says.
JoinOnlyIfAdmitted(allowed(_, _, _)) ==
  \A p \in Sessions : \A id \in registry :
    LET m == matches[id]
        admitted == allowed(p, m, last'.arg.passwd) /\ Match_get_free(m) # None
        occupant(mm) == \E i \in SlotIds : mm.slots[i].player = p
    IN
    (/\ last'.op = "MatchJoin" /\ last'.p = p /\ last'.arg.id = id
     /\ m.host # p)
    => /\ (~occupant(m) /\ occupant(matches'[id])) => admitted
       /\ ~admitted => /\ <<p, "matchJoinFail">> \in sent'
                       /\ matches'[id].slots = m.slots

\* C17 as stated: a session that is not the host becomes an occupant
\* through a join packet only if its password equals the password of the
\* match and a free slot exists; otherwise it receives matchJoinFail and no
\* slot changes.
WithPassword(p, m, passwd) == passwd = m.passwd
C17_JoinNeedsPassword == [][JoinOnlyIfAdmitted(WithPassword)]_vars

\* C17, with the registered sessions of the staff admitted whatever their
\* password.
WithPasswordOrStaff(p, m, passwd) == (p \in Staff /\ p \in players) \/ passwd = m.passwd
C17_JoinNeedsPasswordOrStaff == [][JoinOnlyIfAdmitted(WithPasswordOrStaff)]_vars

\* A join packet with a wrong password, for a match with a free slot, has
\* been refused.
C17_Witness ==
  /\ last.op = "MatchJoin"
  /\ last.arg.id \in registry
  /\ matches[last.arg.id].host # last.p
  /\ last.arg.passwd # matches[last.arg.id].passwd
  /\ last.p \notin Staff
  /\ Match_get_free(matches[last.arg.id]) # None
  /\ sent = {<<last.p, "matchJoinFail">>}
  /\ pmatch[last.p] = None

\* The start events of a match.
Starts == {"MatchStart", "mp_start", "StartTimer"}

\* C18: while a match is in progress, a start event (the start packet of
\* the host, !mp start, or the start timer firing) changes no slot status
\* and sends no matchStart packet.
C18_StartOnlyInLobby ==
  [][\A id \in MatchIds :
       (/\ matches[id] # NoMatch
        /\ matches[id].in_progress
        /\ last'.op \in Starts
        /\ IF last'.op = "StartTimer"
           THEN matches[id].timer = last'.p
           ELSE pmatch[last'.p] = id)
       => /\ matches'[id] # NoMatch
          /\ \A i \in SlotIds : matches'[id].slots[i].status = matches[id].slots[i].status
          /\ matches'[id].in_progress
          /\ \A q \in Sessions : <<q, "matchStart">> \notin sent']_vars

\* The host has sent a start packet for a match in progress, with slots
\* that a start would have set playing.
C18_Witness ==
  /\ last.op = "MatchStart"
  /\ pmatch[last.p] \in registry
  /\ matches[pmatch[last.p]].host = last.p
  /\ matches[pmatch[last.p]].in_progress
  /\ \E i \in SlotIds : matches[pmatch[last.p]].slots[i].status \in {"ready", "not_ready"}
  /\ sent = {}

\* C19: a match in progress returns to the lobby as soon as every slot that
\* was playing has completed or has been vacated: no registered match is in
\* progress with no slot playing.
C19_InProgressHasPlaying ==
  \A id \in registry :
    matches[id].in_progress => \E i \in SlotIds : matches[id].slots[i].status = "playing"

\* C20: whenever the map of a match changes (change-settings packet of the
\* host, !mp map, !mp pick), no slot of it is ready after the change.
C20_MapChangeUnreadies ==
  [][\A id \in MatchIds :
       (/\ matches[id] # NoMatch /\ matches'[id] # NoMatch
        /\ last'.op \in {"MatchChangeSettings", "mp_map", "mp_pick"}
        /\ matches'[id].map_id # matches[id].map_id)
       => \A i \in SlotIds : matches'[id].slots[i].status # "ready"]_vars

\* C21: a ready packet moves the slot of its sender to ready only from
\* not-ready or no-map; in any other status the slot is left unchanged.
C21_ReadyOnlyFromLobbyStatus ==
  [][\A p \in Sessions : \A id \in registry : \A i \in SlotIds :
       (/\ pmatch[p] = id
        /\ matches[id].slots[i].player = p
        /\ matches[id].slots[i].status \notin {"not_ready", "no_map"}
        /\ last'.op = "MatchReady" /\ last'.p = p)
       => /\ matches'[id] # NoMatch
          /\ matches'[id].slots[i].status = matches[id].slots[i].status]_vars

\* C22: the banned picks of a match change only by a ban that adds the
\* pick it names or an unban that removes it, and while a pick is banned
\* every !mp pick of it leaves the map, the mods, the freemods flag and the
\* slots of the match unchanged and sends no state.
C22_BannedPickRejected ==
  [][\A id \in MatchIds :
       (matches[id] # NoMatch /\ matches'[id] # NoMatch)
       => /\ matches'[id].bans # matches[id].bans
               => /\ last'.op \in {"mp_ban", "mp_unban"}
                  /\ pmatch[last'.p] = id
                  /\ last'.op = "mp_ban"
                       => /\ last'.arg.pick \notin matches[id].bans
                          /\ matches'[id].bans = matches[id].bans \cup {last'.arg.pick}
                  /\ last'.op = "mp_unban"
                       => /\ last'.arg.pick \in matches[id].bans
                          /\ matches'[id].bans = matches[id].bans \ {last'.arg.pick}
          /\ (/\ last'.op = "mp_pick"
              /\ pmatch[last'.p] = id
              /\ last'.arg.pick \in matches[id].bans)
               => /\ matches'[id].map_id = matches[id].map_id
                  /\ matches'[id].mods = matches[id].mods
                  /\ matches'[id].freemods = matches[id].freemods
                  /\ matches'[id].slots = matches[id].slots
                  /\ sent' = {}]_vars

\* A pick of the pool loaded has been refused while banned, in a match with
\* freemods and mods in a slot, which the pick would have ended.
C22_Witness ==
  /\ last.op = "mp_pick"
  /\ pmatch[last.p] \in registry
  /\ matches[pmatch[last.p]].pool # NoPool
  /\ last.arg.pick \in DOMAIN Pool_maps(matches[pmatch[last.p]].pool)
  /\ last.arg.pick \in matches[pmatch[last.p]].bans
  /\ matches[pmatch[last.p]].freemods
  /\ matches[pmatch[last.p]].map_id # Pool_maps(matches[pmatch[last.p]].pool)[last.arg.pick]
  /\ \E i \in SlotIds : matches[pmatch[last.p]].slots[i].mods # NOMOD
  /\ sent = {}

\* C23: !mp start cancel on a match with a pending start timer clears the
\* timer handles of the match and leaves no callback of it on the loop, and
\* the loop runs a start or an alert callback only for a match whose start
\* timer is pending: a cancelled timer never starts the match and sends no
\* further alert.
C23_CancelRevokesTimers ==
  [][\A id \in MatchIds :
       (matches[id] # NoMatch /\ matches'[id] # NoMatch)
       => /\ (/\ last'.op = "mp_start_cancel"
              /\ pmatch[last'.p] = id
              /\ matches[id].timer # None)
               => /\ matches'[id].timer = None
                  /\ matches'[id].alerts = {}
                  /\ matches'[id].loop = {}
          /\ (/\ last'.op \in {"StartTimer", "AlertTimer"}
              /\ matches'[id].loop # matches[id].loop)
               => matches[id].timer # None]_vars

\* The start timer of a match has been cancelled by the host in its match.
C23_Witness ==
  /\ last.op = "mp_start_cancel"
  /\ pmatch[last.p] \in registry
  /\ matches[pmatch[last.p]].timer = None
  /\ matches[pmatch[last.p]].loop = {}
  /\ ~matches[pmatch[last.p]].in_progress

\* C24: within a submission the #1 play is posted to #announce only after
\* its row has been inserted: a submission that has announced has its row in
\* the scores table.
C24_AnnouncedAfterInsert ==
  \A s \in SubIds :
    subs[s].announced => subs[s].pc \notin {"update", "insert"}

\* C32: a session whose current match is m occupies a slot of m.
C32_MatchRefHoldsSlot ==
  \A p \in Sessions :
    pmatch[p] # None => Match_get_slot_id(matches[pmatch[p]], p) # None

\* C33: every match in the match registry has an occupied slot.
C33_RegisteredMatchOccupied ==
  \A id \in registry : \E i \in SlotIds : matches[id].slots[i].status \in has_player

\* The slots of the registered matches that hold the session p.
SlotsOf(p) == {s \in registry \X SlotIds : matches[s[1]].slots[s[2]].player = p}

C8_BotRegistered == \E p \in online : p.id = BotId

ChannelsOf(p) == {pchannels[p][i] : i \in 1 .. Len(pchannels[p])}

\* C35: every member of every channel is a session of the registry.
C35_MembersInRegistry == \A c \in Chans : cmembers[c] \subseteq cplayers

\* C36: a session's host is in the registry and lists the session among its
\* spectators.
C36_HostRegisteredAndLists ==
  \A p \in CSessions :
    spectating[p] # None =>
      spectating[p] \in cplayers /\ p \in spectators[spectating[p]]

\* C38: a message delivered through an instance channel was sent by a member
\* of that channel.
C38_InstanceSenderIsMember ==
  (clast.op = "SendMessage" /\ clast.chan # Osu /\ clast.to # {})
    => clast.p \in cmembers[clast.chan]

\* C40: a session is a member of exactly the channels of its list, and the
\* loop of logout that empties the list ends.
C40_ChannelsMirrorMembers ==
  /\ \A p \in CSessions, c \in Chans : p \in cmembers[c] <=> c \in ChannelsOf(p)
  /\ creq.pc # "hung"

\* A session that was in two channels has logged out and is in none.
C40_Witness ==
  /\ clast.op = "Logout"
  /\ clast.left = 2
  /\ clast.p \notin cplayers
  /\ pchannels[clast.p] = <<>>
  /\ \A c \in Chans : clast.p \notin cmembers[c]

(***************************************************************************)
(* Properties of the !mp commands                                          *)
(***************************************************************************)
\* The !mp commands of the model, by the names they are recorded under.
MpCommands ==
  {"mp_abort", "mp_ban", "mp_force", "mp_freemods", "mp_host", "mp_loadpool", "mp_map",
   "mp_mods", "mp_pick", "mp_start", "mp_start_cancel", "mp_start_timer", "mp_teams",
   "mp_unban", "mp_unloadpool"}

\* C37: an !mp command changes a match only when its sender holds a slot of
\* the match it wrote to.
C37_CommandFromOccupantOnly ==
  [][(last'.op \in MpCommands /\ matches' # matches)
       => Match_get_slot_id(matches[pmatch[last'.p]], last'.p) # None]_vars

\* C31: a login that ends in a rejection has logged out no session.
C31_RejectedLoginKeepsRegistry ==
  \A l \in LoginIds :
    (logins[l].pc = "reply" /\ logins[l].result # "logged in")
      => logins[l].logged_out = None

(***************************************************************************)
(* Properties of the gateway and of score submission.                      *)
(***************************************************************************)
\* s is t with some elements left out.
RECURSIVE IsSubseq(_, _)
IsSubseq(s, t) ==
  IF s = <<>> THEN TRUE
  ELSE IF t = <<>> THEN FALSE
  ELSE IF Head(s) = Head(t) THEN IsSubseq(Tail(s), Tail(t))
  ELSE IsSubseq(s, Tail(t))

\* C6: the packets of a request are handled in the order received, and its
\* reply holds every byte its handlers enqueued to the requesting session,
\* also when other requests are handled concurrently.
C6_ReplyHoldsEnqueued ==
  \A r \in ReqIds :
    requests[r].pc = "done" =>
      /\ requests[r].handled = Filter(requests[r].body, bancho_packets)
      /\ IsSubseq(requests[r].enqueued, requests[r].reply)

\* s is the beginning of t.
IsPrefix(s, t) == Len(s) <= Len(t) /\ SubSeq(t, 1, Len(s)) = s

\* C25: while a session exists, every step either only appends to its
\* buffer, or empties it into the reply of a request of the session that
\* ends with this step, which holds every byte of the buffer in append
\* order; this holds also for the bytes appended while its login is handled.
C25_BufferDrainedIntoReply ==
  [][\A p \in QSessions :
       \/ IsPrefix(queue[p], queue'[p])
       \/ /\ queue'[p] = <<>>
          /\ \E r \in ReqIds :
               /\ requests'[r].player = p
               /\ requests'[r].pc = "done" /\ requests[r].pc # "done"
               /\ IsSubseq(queue[p], requests'[r].reply)
       \/ p \in qplayers /\ p \notin qplayers']_vars

(***************************************************************************)
(* Properties of the codec.                                                *)
(***************************************************************************)
\* C30: reading what write_string wrote for a string returns the string and
\* leaves exactly the bytes that followed it, the length read is the length
\* written for every length below 2^28, and the empty string is written as
\* the single byte 0x00.
C30_StringRoundTrip ==
  /\ (codec.kind \in {"string", "uleb128"} /\ codec.pc = "read")
       => /\ codec.result.ok
          /\ codec.result.val = codec.value
          /\ codec.result.rest = codec.tail
  /\ (codec.kind = "string" /\ codec.pc \in {"written", "read"} /\ codec.value = <<>>)
       => codec.bytes = <<0>> \o codec.tail

\* A string with a code point of two bytes has been written before other
\* bytes and read back.
C30_Witness ==
  /\ codec.kind = "string"
  /\ codec.pc = "read"
  /\ Len(codec.value) = MaxStr
  /\ Len(str_encode(codec.value)) > MaxStr
  /\ codec.tail # <<>>
  /\ codec.result.val = codec.value

\* C26: reading what the writer wrote for a message or a channel returns the
\* value and leaves exactly the bytes that followed it.
C26_CompositeRoundTrip ==
  (codec.kind \in {"message", "channel"} /\ codec.pc = "read")
    => /\ codec.result.ok
       /\ codec.result.val = codec.value
       /\ codec.result.rest = codec.tail

\* C27: a match written, read and written again for the same observer gives
\* the same bytes.
C27_MatchRewrittenSame ==
  (codec.kind = "match" /\ codec.pc = "rewritten")
    => /\ codec.again.ok
       /\ codec.again.bytes = codec.bytes

\* The ids of a sequence of packets.
Ids(pkts) == [i \in DOMAIN pkts |-> pkts[i].id]

\* Every packet with a handler declares the length of its handler's fields.
Exact(pkts) ==
  \A i \in DOMAIN pkts :
    pkts[i].id \in DOMAIN packet_map
      => pkts[i].length = args_size(packet_map[pkts[i].id])

\* C28: a packet whose id has no registered handler, defined in the packet-id
\* table or not, is skipped by its declared length: the reader does not
\* raise, and the handlers that run are those of the other packets, in order.
C28_UnhandledSkipped ==
  (reader.pc \in {"stopped", "raised"} /\ Exact(reader.packets))
    => /\ reader.pc = "stopped"
       /\ Ids(reader.handled) = Filter(Ids(reader.packets), DOMAIN packet_map)

\* C29: no handler runs for a packet that declares a payload shorter than
\* its fields, and the fields read for a packet take no byte beyond its
\* declared payload.
C29_ShortPayloadRejected ==
  \A i \in DOMAIN reader.handled :
    /\ reader.handled[i].length >= args_size(packet_map[reader.handled[i].id])
    /\ reader.handled[i].consumed <= reader.handled[i].length

\* C34: of the submissions that carry one online checksum, at most one
\* inserts a score row, also when they are processed concurrently.
C34_OneRowPerChecksum ==
  \A c \in Checksums :
    Cardinality({i \in 1 .. Len(scores) : scores[i].checksum = c}) <= 1

\* C4: each (player, map, mode) has at most one score row with status best.
C4_OneBestRow == Cardinality(BestRows(scores)) <= 1

\* C13 as stated: every submission whose checksum is the one of a row
\* already in the table returns `error: no`, inserts no row and changes no
\* statistics.
C13_DuplicateRefused ==
  [](\A s \in SubIds :
       (subs[s].existed /\ subs[s].pc = "reply") => subs[s].reply = "error: no")

\* C13, for the submissions that from_submission binds to an online player
\* and a known map: one whose checksum is the one of a row already in the
\* table returns `error: no`, and no step of it changes the rows of the
\* table or the plays.
C13_DuplicateRefusedBound ==
  /\ [](\A s \in SubIds :
         (subs[s].existed /\ subs[s].kind = "ok" /\ subs[s].pc = "reply")
           => subs[s].reply = "error: no")
  /\ [][\A s \in SubIds :
         (subs[s].existed /\ subs[s].kind = "ok" /\ subs[s].pc # "idle"
          /\ subs'[s] # subs[s])
           => scores' = scores /\ plays' = plays]_vars

\* A bound submission of a checksum already in the table has been answered.
C13_Witness ==
  \E s \in SubIds :
    /\ subs[s].pc = "reply" /\ subs[s].existed /\ subs[s].kind = "ok"
    /\ subs[s].reply = "error: no"
    /\ scores # <<>>

(***************************************************************************)
(* Properties of friends, blocks and the password cache.                   *)
(***************************************************************************)
\* C12: after any sequence of block, unblock, friend-add and friend-remove
\* operations no user id is both in a session's blocked set and in its
\* friends set.
C12_BlockedNotFriends ==
  \A p \in FriendUsers : blocks[p] \cap friends[p] = {}

====
